---------------------------- MODULE Spec2Model ----------------------------
(***************************************************************************)
(* A model of the SegmentAI annotator: the App component (layer registry,  *)
(* undo/redo history, AI label generation) of src/App.tsx and the          *)
(* CanvasEditor component (mask canvases, brush/eraser, polygon, flood     *)
(* fill, snapshot capture and restoration) of                              *)
(* src/components/CanvasEditor.tsx.                                        *)
(*                                                                         *)
(* Bitmaps are functions from a pixel index (y * width + x) to an RGBA     *)
(* tuple; the byte index the code uses is 4 * pixel index + channel.       *)
(***************************************************************************)
EXTENDS Integers, Sequences, FiniteSets, TLC

(***************************************************************************)
(* Bounds of the model.                                                    *)
(***************************************************************************)
\* Width and height of the images the flood-fill specification draws.
GridW == 2
GridH == 2
\* Longest historyPast a recording handler may extend.
MaxHist == 2
\* Most layers the registry may hold when layers are added.
MaxLayers == 2
\* Last reading of the clock.
MaxClock == 1
\* Most label requests in flight.
MaxPendingAI == 1
\* Most vertices collected for a polygon.
MaxPoly == 3

(***************************************************************************)
(* Pixels and bitmaps.                                                     *)
(***************************************************************************)
Transparent == <<0, 0, 0, 0>>
OpaqueWhite == <<255, 255, 255, 255>>

PixelIdx(width, height) == 0 .. (width * height - 1)

\* A freshly created canvas: every pixel transparent black.
BlankData(width, height) == [i \in PixelIdx(width, height) |-> Transparent]

\* Reading one byte of an ImageData buffer; outside the buffer a typed array
\* yields undefined, written -1 here.
Byte(data, idx) ==
    IF idx >= 0 /\ (idx \div 4) \in DOMAIN data
    THEN data[idx \div 4][(idx % 4) + 1]
    ELSE -1

Abs(n) == IF n < 0 THEN -n ELSE n

(***************************************************************************)
(* performFloodFill: the region growing of CanvasEditor.tsx:271-338.       *)
(***************************************************************************)
\* tolerance * 2.55 in IEEE doubles, as the largest integer difference it
\* admits: exact for every tolerance in 0..100 but 100, where the product
\* is 254.99999999999997.
TolThreshold(tolerance) ==
    IF tolerance = 100 THEN 254 ELSE (tolerance * 255) \div 100

\* A comparison that excludes equality at the threshold.
ColorMatchStrict(srcData, idx, r0, g0, b0, tolerance) ==
    /\ Byte(srcData, idx) >= 0
    /\ Abs(Byte(srcData, idx) - r0) < TolThreshold(tolerance)
    /\ Abs(Byte(srcData, idx + 1) - g0) < TolThreshold(tolerance)
    /\ Abs(Byte(srcData, idx + 2) - b0) < TolThreshold(tolerance)

\* r, g and b of the byte offset idx compared with the seed's; a comparison
\* with undefined is false.
ColorMatch(srcData, idx, r0, g0, b0, tolerance) ==
    /\ Byte(srcData, idx) >= 0
    /\ Abs(Byte(srcData, idx) - r0) <= TolThreshold(tolerance)
    /\ Abs(Byte(srcData, idx + 1) - g0) <= TolThreshold(tolerance)
    /\ Abs(Byte(srcData, idx + 2) - b0) <= TolThreshold(tolerance)

\* A right-neighbour guard that lets the last column run into the next row.
CanStepRightUnguarded(x, width) == TRUE

\* The four guards on a pixel's neighbours.
CanStepRight(x, width) == x < width - 1
CanStepLeft(x) == x > 0
CanStepDown(y, height) == y < height - 1
CanStepUp(y) == y > 0

\* A write that inverts the pixel instead of overwriting it.
WritePixelToggle(maskData, idx) ==
    IF (idx \div 4) \in DOMAIN maskData
    THEN [maskData EXCEPT ![idx \div 4] =
              IF @ = OpaqueWhite THEN Transparent ELSE OpaqueWhite]
    ELSE maskData

\* maskData[idx .. idx+3] = 255
WritePixel(maskData, idx) ==
    IF (idx \div 4) \in DOMAIN maskData
    THEN [maskData EXCEPT ![idx \div 4] = OpaqueWhite]
    ELSE maskData

\* One neighbour test: push nIdx unless visited or not matching.
\* sv is the pair <<stack, visited>>.
Visit(sv, allowed, nIdx, srcData, r0, g0, b0, tolerance) ==
    IF /\ allowed
       /\ (nIdx \div 4) \notin sv[2]
       /\ ColorMatch(srcData, nIdx, r0, g0, b0, tolerance)
    THEN <<Append(sv[1], nIdx), sv[2] \cup {nIdx \div 4}>>
    ELSE sv

RECURSIVE FillLoop(_, _, _, _, _, _, _, _, _, _)
FillLoop(srcData, width, height, r0, g0, b0, tolerance, stack, visited, maskData) ==
    IF stack = <<>>
    THEN maskData
    ELSE
        LET idx    == stack[Len(stack)]
            popped == SubSeq(stack, 1, Len(stack) - 1)
            mask1  == WritePixel(maskData, idx)
            x      == (idx \div 4) % width
            y      == (idx \div 4) \div width
            stride == width * 4
            s1 == Visit(<<popped, visited>>, CanStepRight(x, width), idx + 4,
                        srcData, r0, g0, b0, tolerance)
            s2 == Visit(s1, CanStepLeft(x), idx - 4,
                        srcData, r0, g0, b0, tolerance)
            s3 == Visit(s2, CanStepDown(y, height), idx + stride,
                        srcData, r0, g0, b0, tolerance)
            s4 == Visit(s3, CanStepUp(y), idx - stride,
                        srcData, r0, g0, b0, tolerance)
        IN FillLoop(srcData, width, height, r0, g0, b0, tolerance,
                    s4[1], s4[2], mask1)

\* A seed test that forgets the lower limits.
SeedInBoundsUpperOnly(startX, startY, width, height) ==
    ~(startX >= width \/ startY >= height)

\* The seed test of line 269 (startX, startY already floored).
SeedInBounds(startX, startY, width, height) ==
    ~(startX < 0 \/ startX >= width \/ startY < 0 \/ startY >= height)

\* The mask data performFloodFill puts back for an in-bounds seed.
FloodFill(srcData, width, height, maskData, startX, startY, tolerance) ==
    LET startIdx == (startY * width + startX) * 4
    IN FillLoop(srcData, width, height,
                Byte(srcData, startIdx), Byte(srcData, startIdx + 1),
                Byte(srcData, startIdx + 2), tolerance,
                <<startIdx>>, {startIdx \div 4}, maskData)

(***************************************************************************)
(* Layers (src/App.tsx:37-39, 158-169, 222-228).                           *)
(***************************************************************************)
\* Layer ids: 'fg', `inst-${Date.now()}` and `ai-${idx}-${Date.now()}`, as
\* the triple <<prefix, idx, clock reading>>.
FgId == <<"fg", 0, 0>>
InstId(t) == <<"inst", 0, t>>
AiId(idx, t) == <<"ai", idx, t>>

PREDEFINED_COLORS ==
    <<"#ef4444", "#22c55e", "#3b82f6", "#eab308",
      "#a855f7", "#ec4899", "#06b6d4", "#f97316">>

\* PREDEFINED_COLORS[n % PREDEFINED_COLORS.length]
ColorAt(n) == PREDEFINED_COLORS[(n % Len(PREDEFINED_COLORS)) + 1]

InitialLayers ==
    <<[id |-> FgId, name |-> "Foreground", color |-> "#ef4444",
       isVisible |-> TRUE, isLocked |-> FALSE]>>

LayerIds(ls) == {ls[i].id : i \in 1 .. Len(ls)}

\* prev.filter(keep)
RECURSIVE FilterOut(_, _)
FilterOut(ls, id) ==
    IF ls = <<>> THEN <<>>
    ELSE IF ls[1].id = id THEN FilterOut(Tail(ls), id)
         ELSE <<ls[1]>> \o FilterOut(Tail(ls), id)

(***************************************************************************)
(* Mask canvases and their serialisation                                   *)
(* (src/components/CanvasEditor.tsx:55-66, 117-148).                       *)
(***************************************************************************)
NewCanvas(width, height) ==
    [width |-> width, height |-> height, data |-> BlankData(width, height)]

\* The empty string captureSnapshot stores for a layer without a canvas.
EmptyUrl == [png |-> FALSE, width |-> 0, height |-> 0, rows |-> <<>>]

\* canvas.toDataURL(): a PNG of the canvas, its pixels in row-major order.
ToDataURL(canvas) ==
    [png |-> TRUE, width |-> canvas.width, height |-> canvas.height,
     rows |-> [k \in 1 .. (canvas.width * canvas.height) |-> canvas.data[k - 1]]]

\* Source-over compositing of one pixel.
SourceOver(src, dst) == IF src[4] = 0 THEN dst ELSE src

\* ctx.drawImage(img, 0, 0) of a decoded data URL onto a canvas.
DrawImage(canvas, url) ==
    [canvas EXCEPT !.data =
        [i \in DOMAIN canvas.data |->
            LET x == i % canvas.width
                y == i \div canvas.width
            IN IF url.png /\ x < url.width /\ y < url.height
               THEN SourceOver(url.rows[y * url.width + x + 1], canvas.data[i])
               ELSE canvas.data[i]]]

\* A clearRect that clears nothing.
ClearRectKeep(canvas, width, height) == canvas

\* context.clearRect(0, 0, width, height)
ClearRect(canvas, width, height) ==
    [canvas EXCEPT !.data =
        [i \in DOMAIN canvas.data |->
            IF (i % canvas.width) < width /\ (i \div canvas.width) < height
            THEN Transparent ELSE canvas.data[i]]]

\* A JavaScript object used as a map, and map[key] = value.
EmptyMap == [k \in {} |-> EmptyUrl]
MapSet(map, key, value) ==
    [k \in (DOMAIN map) \cup {key} |-> IF k = key THEN value ELSE map[k]]

\* A MaskState object: obj is the object's identity (setState compares
\* with Object.is), data the map layer id -> data URL.
NullMasks == [obj |-> -1, data |-> EmptyMap]

\* The source images a user may select: width, height and RGBA samples.
SourceImages ==
    <<[width |-> 2, height |-> 1,
       data |-> [i \in 0 .. 1 |-> IF i = 0 THEN <<0, 0, 0, 255>> ELSE <<70, 70, 70, 255>>]],
      [width |-> 1, height |-> 1,
       data |-> [i \in 0 .. 0 |-> <<70, 70, 70, 255>>]],
      [width |-> 2, height |-> 2,
       data |-> [i \in 0 .. 3 |-> IF i = 3 THEN <<70, 70, 70, 255>> ELSE <<0, 0, 0, 255>>]]>>

NoImageData == [width |-> 0, height |-> 0, data |-> BlankData(0, 0)]

(***************************************************************************)
(* Export compositing (src/components/CanvasEditor.tsx:484-653).           *)
(* Every canvas involved has the editor's dimensions, so one pass of       *)
(* drawImage or fillRect combines equal-indexed pixels.                    *)
(***************************************************************************)
\* The values of the exportMode prop (CanvasEditor.tsx:511-619).
ExportModes == {"white_bg", "rgba", "instance", "training_mask", "visual_mask"}

\* The modes the toolbar's export buttons request (App.tsx:394-403).
ToolbarExportModes == {"white_bg", "rgba", "training_mask", "visual_mask"}

\* A division that truncates by 256.
Div255Truncating(x) == x \div 256

\* x / 255 rounded to the nearest integer: 8-bit alpha products.
Div255(x) == (2 * x + 255) \div 510

\* One colour channel of source-over, for result alpha a > 0.
OverChannel(s, sa, d, da, a) ==
    (2 * (s * sa * 255 + d * da * (255 - sa)) + a * 255) \div (2 * a * 255)

\* globalCompositeOperation 'source-over' (the default) on one pixel.
CompositeSourceOver(src, dst) ==
    LET a == src[4] + Div255(dst[4] * (255 - src[4]))
    IN IF a = 0 THEN Transparent
       ELSE <<OverChannel(src[1], src[4], dst[1], dst[4], a),
              OverChannel(src[2], src[4], dst[2], dst[4], a),
              OverChannel(src[3], src[4], dst[3], dst[4], a), a>>

\* 'destination-in': the destination, kept where the source has alpha.
CompositeDestinationIn(src, dst) ==
    LET a == Div255(dst[4] * src[4])
    IN IF a = 0 THEN Transparent ELSE <<dst[1], dst[2], dst[3], a>>

\* A source-in pass that ignores the destination's alpha.
CompositeSourceInOpaque(src, dst) == src

\* 'source-in': the source, kept where the destination has alpha.
CompositeSourceIn(src, dst) ==
    LET a == Div255(src[4] * dst[4])
    IN IF a = 0 THEN Transparent ELSE <<src[1], src[2], src[3], a>>

\* ctx.drawImage(source, 0, 0) under each operation, and fillRect of the
\* whole canvas under source-over and source-in.
DrawOver(src, dst) == [i \in DOMAIN dst |-> CompositeSourceOver(src[i], dst[i])]
DrawDestinationIn(src, dst) == [i \in DOMAIN dst |-> CompositeDestinationIn(src[i], dst[i])]
FillOver(colour, dst) == [i \in DOMAIN dst |-> CompositeSourceOver(colour, dst[i])]
FillSourceIn(colour, dst) == [i \in DOMAIN dst |-> CompositeSourceIn(colour, dst[i])]

\* A fillStyle as the RGBA it paints: '#rrggbb' of the layer colours, and
\* 'black' for anything else the model uses.
ParseColor(c) ==
    CASE c = "#FFFFFF" -> <<255, 255, 255, 255>>
      [] c = "#ef4444" -> <<239, 68, 68, 255>>
      [] c = "#22c55e" -> <<34, 197, 94, 255>>
      [] c = "#3b82f6" -> <<59, 130, 246, 255>>
      [] c = "#eab308" -> <<234, 179, 8, 255>>
      [] c = "#a855f7" -> <<168, 85, 247, 255>>
      [] c = "#ec4899" -> <<236, 72, 153, 255>>
      [] c = "#06b6d4" -> <<6, 182, 212, 255>>
      [] c = "#f97316" -> <<249, 115, 22, 255>>
      [] OTHER -> <<0, 0, 0, 255>>

\* `rgb(${id},${id},${id})`: a channel above 255 is clamped.
RgbLabel(id) == LET c == IF id > 255 THEN 255 ELSE id IN <<c, c, c, 255>>

\* A test that takes every layer as visible.
LayerShownAlways(layer) == TRUE

\* The value the layer.isVisible test sees.
LayerShown(layer) == layer.isVisible

\* The layers.forEach bodies draw a layer when it is visible and has a canvas.
Drawn(layer, canvases) == LayerShown(layer) /\ layer.id \in DOMAIN canvases

\* getCompositeMask (lines 495-509): the visible layers' masks drawn in
\* registry order onto a blank canvas.
RECURSIVE GetCompositeMask(_, _, _)
GetCompositeMask(ls, canvases, acc) ==
    IF ls = <<>> THEN acc
    ELSE GetCompositeMask(Tail(ls), canvases,
                          IF Drawn(Head(ls), canvases)
                          THEN DrawOver(canvases[Head(ls).id].data, acc)
                          ELSE acc)

\* A label that counts from zero.
LabelIdZeroBased(index) == index

\* The label of the layer at 0-based position index (line 578).
LabelId(index) == index + 1

\* training_mask step 2 (lines 574-598): from position k on, each drawn
\* layer's mask tinted with its label and drawn over the canvas.
RECURSIVE PaintLabels(_, _, _, _)
PaintLabels(ls, k, canvases, acc) ==
    IF k > Len(ls) THEN acc
    ELSE PaintLabels(ls, k + 1, canvases,
                     IF Drawn(ls[k], canvases)
                     THEN DrawOver(FillSourceIn(RgbLabel(LabelId(k - 1)),
                                                canvases[ls[k].id].data), acc)
                     ELSE acc)

\* visual_mask step 1 (lines 623-644): each drawn layer's mask tinted with
\* the layer colour and drawn over the canvas.
RECURSIVE PaintColours(_, _, _)
PaintColours(ls, canvases, acc) ==
    IF ls = <<>> THEN acc
    ELSE PaintColours(Tail(ls), canvases,
                      IF Drawn(Head(ls), canvases)
                      THEN DrawOver(FillSourceIn(ParseColor(Head(ls).color),
                                                 canvases[Head(ls).id].data), acc)
                      ELSE acc)

\* The instance mode's mask (lines 544-557): the active layer's canvas,
\* intersected with the canvas stored under 'fg' (line 549) when the active
\* layer is another one.
InstanceMask(active, canvases, blank) ==
    IF active \in DOMAIN canvases
    THEN LET drawn == DrawOver(canvases[active].data, blank)
         IN IF active # FgId /\ FgId \in DOMAIN canvases
            THEN DrawDestinationIn(canvases[FgId].data, drawn)
            ELSE drawn
    ELSE blank

\* A last step that hands the export canvas on as it is.
OverBlackSkipped(data, blank) == data

\* The training_mask's last step (lines 606-615): the export canvas drawn
\* over a canvas filled black.
OverBlack(data, blank) == DrawOver(data, FillOver(ParseColor("black"), blank))

\* processExport (lines 484-653): the bitmap handed to onExportComplete.
ProcessExport(mode, img, ls, active, canvases) ==
    LET blank == BlankData(img.width, img.height)
        source == DrawOver(img.data, blank)
    IN CASE mode = "white_bg" ->
              DrawOver(DrawDestinationIn(GetCompositeMask(ls, canvases, blank), source),
                       FillOver(ParseColor("#FFFFFF"), blank))
         [] mode = "rgba" ->
              DrawDestinationIn(GetCompositeMask(ls, canvases, blank), source)
         [] mode = "instance" ->
              DrawDestinationIn(InstanceMask(active, canvases, blank), source)
         [] mode = "training_mask" ->
              OverBlack(DrawDestinationIn(img.data,
                            PaintLabels(ls, 1, canvases,
                                        FillOver(ParseColor("black"), blank))),
                        blank)
         [] OTHER ->
              DrawDestinationIn(img.data, PaintColours(ls, canvases, blank))


VARIABLES
    imageSrc,          \* App: index of the loaded image, 0 for null
    layers,            \* App: the layer registry
    activeLayerId,     \* App
    historyPast,       \* App
    historyFuture,     \* App
    currentMasksRef,   \* App: the MaskState last reported or restored
    restoredMasks,     \* App: the MaskState handed to the editor, or NullMasks
    aiPending,         \* App: detectObjectsInImage calls in flight, each with
                       \*      the layers.length its closure captured
    now,               \* Date.now()
    kbActiveLayerId,   \* App: activeLayerId as captured by the keydown effect
    dimensions,        \* editor: <<width, height>>
    maskCanvases,      \* editor: maskCanvasesRef, layer id -> canvas
    sourceImageData,   \* editor: sourceImageDataRef, NoImageData for null
    imgLoading,        \* editor: img.onload of the image effect is pending
    isDrawing,         \* editor
    lastPoint,         \* editor
    polyPoints,        \* editor
    pendingDecodes,    \* editor: restoration images whose onload is pending
    lastOp,            \* history variable: the handler that ran last
    lastPopped,        \* history variable: the entry undo/redo restored last
    strokeStart,       \* history variable: the masks when the drag began
    fillRun,           \* the flood-fill specification's run
    isExporting,       \* App
    exportMode,        \* App
    downloaded,        \* the data URL last handed to handleExportComplete
    exportRun,         \* the export specification's run
    toolRun            \* the tool specification's run

appVars == <<imageSrc, layers, activeLayerId, historyPast, historyFuture,
             currentMasksRef, restoredMasks, aiPending, now, kbActiveLayerId>>
editorVars == <<dimensions, maskCanvases, sourceImageData, imgLoading,
                isDrawing, lastPoint, polyPoints, pendingDecodes>>
ghostVars == <<lastOp, lastPopped, strokeStart>>
exportVars == <<isExporting, exportMode, downloaded, exportRun>>

vars == <<appVars, editorVars, ghostVars, fillRun, exportVars, toolRun>>

(***************************************************************************)
(* Object identity of MaskState objects.  Identities are only ever         *)
(* compared for equality, so after each handler the objects referenced are *)
(* renumbered in order of first appearance (past, current, future,         *)
(* restored).                                                              *)
(***************************************************************************)
ObjSeq(past, cur, future, restored) ==
    [i \in 1 .. Len(past) |-> past[i].masks.obj] \o <<cur.obj>> \o
    [i \in 1 .. Len(future) |-> future[i].masks.obj] \o <<restored.obj>>

Rank(seq, o) ==
    LET first == CHOOSE i \in 1 .. Len(seq) :
                    seq[i] = o /\ \A j \in 1 .. (i - 1) : seq[j] # o
    IN Cardinality({seq[j] : j \in 1 .. (first - 1)} \ {-1})

Renumber(ms, seq) == IF ms.obj = -1 THEN ms ELSE [ms EXCEPT !.obj = Rank(seq, ms.obj)]

\* An identity no referenced object has: a newly allocated object.
FreshObj ==
    LET seq == ObjSeq(historyPast, currentMasksRef, historyFuture, restoredMasks)
        used == {seq[i] : i \in 1 .. Len(seq)}
    IN 1 + (CHOOSE m \in used : \A o \in used : o <= m)

\* The four App variables that hold MaskState objects, after a handler.
SetHistory(past, cur, future, restored) ==
    LET seq == ObjSeq(past, cur, future, restored)
    IN /\ historyPast' = [i \in 1 .. Len(past) |->
                            [past[i] EXCEPT !.masks = Renumber(@, seq)]]
       /\ currentMasksRef' = Renumber(cur, seq)
       /\ historyFuture' = [i \in 1 .. Len(future) |->
                              [future[i] EXCEPT !.masks = Renumber(@, seq)]]
       /\ restoredMasks' = Renumber(restored, seq)

\* A handler that leaves the history alone except for dropping the redo stack.
HistoryFutureDropped ==
    /\ historyFuture' = <<>>
    /\ UNCHANGED <<historyPast, currentMasksRef, restoredMasks>>

HistoryUnchanged ==
    UNCHANGED <<historyPast, currentMasksRef, historyFuture, restoredMasks>>

\* A push that also overwrites the entries already in past.
PushedPastOverwriting(newLayers, newMasks) ==
    [i \in 1 .. (Len(historyPast) + 1) |-> [layers |-> newLayers, masks |-> newMasks]]

\* pushToHistory (App.tsx:104-108): [...prev, item], and the emptied future.
PushedPast(newLayers, newMasks) ==
    Append(historyPast, [layers |-> newLayers, masks |-> newMasks])
ClearedFuture == <<>>

(***************************************************************************)
(* Effects of CanvasEditor that run after a render.                        *)
(***************************************************************************)
\* An effect that creates no canvas.
EnsureMasksIdle(ls, dims, canvases) == canvases

\* Ensure-masks effect (CanvasEditor.tsx:104-114).
EnsureMasks(ls, dims, canvases) ==
    IF dims[1] = 0 THEN canvases
    ELSE [id \in (DOMAIN canvases) \cup LayerIds(ls) |->
            IF id \in DOMAIN canvases THEN canvases[id]
            ELSE NewCanvas(dims[1], dims[2])]

RestoreApplies(rm, dims) == rm.obj # -1 /\ dims[1] > 0 /\ dims[2] > 0

\* The entries of restoredMasks whose data URL is not empty.
RestoredIds(rm) == {id \in DOMAIN rm.data : rm.data[id] # EmptyUrl}

\* Restoration effect (CanvasEditor.tsx:117-148): the canvases right after it
\* ran (all cleared, missing ones created) ...
RestoreCanvases(rm, dims, canvases) ==
    IF ~RestoreApplies(rm, dims) THEN canvases
    ELSE [id \in (DOMAIN canvases) \cup RestoredIds(rm) |->
            IF id \in DOMAIN canvases
            THEN ClearRect(canvases[id], dims[1], dims[2])
            ELSE NewCanvas(dims[1], dims[2])]

\* ... and the image loads it starts, one per non-empty entry.
RestoreDecodes(rm, dims, pending) ==
    IF ~RestoreApplies(rm, dims) THEN pending
    ELSE pending \cup {[id |-> id, url |-> rm.data[id]] : id \in RestoredIds(rm)}

\* The effects that follow a render in which App changed layers to ls and
\* called setRestoredMasks(rm): ensure-masks, then restoration when
\* restoredMasks is another object than before.
EditorAfterRender(ls, rm) ==
    LET ensured == IF imageSrc = 0 THEN maskCanvases
                   ELSE EnsureMasks(ls, dimensions, maskCanvases)
        fires == imageSrc # 0 /\ rm.obj # restoredMasks.obj
    IN /\ maskCanvases' = IF fires THEN RestoreCanvases(rm, dimensions, ensured)
                          ELSE ensured
       /\ pendingDecodes' = IF fires THEN RestoreDecodes(rm, dimensions, pendingDecodes)
                            ELSE pendingDecodes
       /\ UNCHANGED <<dimensions, sourceImageData, imgLoading, isDrawing,
                      lastPoint, polyPoints>>

NoItem == [layers |-> <<>>, data |-> EmptyMap]
NoFill == [src |-> <<>>, prior |-> <<>>, mask |-> <<>>, once |-> <<>>,
           seed |-> <<0, 0>>, tol |-> 0, count |-> 0]
NoStroke == [id \in {} |-> NewCanvas(0, 0)]
NoTool == [canvases |-> NoStroke, active |-> FgId, before |-> NoStroke,
           op |-> "none"]
NoExport == [img |-> NoImageData, layers |-> <<>>, active |-> FgId,
             canvases |-> NoStroke, mode |-> "none", out |-> BlankData(0, 0)]

(***************************************************************************)
(* App handlers (src/App.tsx).                                             *)
(***************************************************************************)
Init ==
    /\ imageSrc = 0
    /\ layers = InitialLayers
    /\ activeLayerId = FgId
    /\ historyPast = <<>>
    /\ historyFuture = <<>>
    /\ currentMasksRef = [obj |-> 0, data |-> EmptyMap]
    /\ restoredMasks = NullMasks
    /\ aiPending = <<>>
    /\ now = 0
    /\ kbActiveLayerId = FgId
    /\ dimensions = <<0, 0>>
    /\ maskCanvases = NoStroke
    /\ sourceImageData = NoImageData
    /\ imgLoading = FALSE
    /\ isDrawing = FALSE
    /\ lastPoint = <<>>
    /\ polyPoints = <<>>
    /\ pendingDecodes = {}
    /\ lastOp = "init"
    /\ lastPopped = NoItem
    /\ strokeStart = NoStroke
    /\ fillRun = NoFill
    /\ isExporting = FALSE
    /\ exportMode = "rgba"
    /\ downloaded = EmptyUrl
    /\ exportRun = NoExport
    /\ toolRun = NoTool

\* The editor as it is when CanvasEditor mounts (or is unmounted).
EditorFresh(loading) ==
    /\ dimensions' = <<0, 0>>
    /\ maskCanvases' = NoStroke
    /\ sourceImageData' = NoImageData
    /\ imgLoading' = loading
    /\ isDrawing' = FALSE
    /\ lastPoint' = <<>>
    /\ polyPoints' = <<>>
    /\ pendingDecodes' = {}

\* Date.now() advances.
Tick ==
    /\ now < MaxClock
    /\ now' = now + 1
    /\ UNCHANGED <<imageSrc, layers, activeLayerId, historyPast, historyFuture,
                   currentMasksRef, restoredMasks, aiPending, kbActiveLayerId>>
    /\ UNCHANGED <<editorVars, ghostVars, fillRun, exportVars, toolRun>>

\* An upload that only swaps the image and mounts the editor, keeping the
\* registry and the history.
HandleImageUploadKeeping(img) ==
    /\ imageSrc = 0
    /\ imageSrc' = img
    /\ EditorFresh(TRUE)
    /\ lastOp' = "upload"
    /\ lastPopped' = NoItem
    /\ strokeStart' = NoStroke
    /\ UNCHANGED <<layers, activeLayerId, kbActiveLayerId, historyPast, historyFuture,
                   currentMasksRef, restoredMasks, aiPending, now, fillRun,
                   exportVars, toolRun>>

\* handleImageUpload, reader.onload (App.tsx:86-99); the file input exists
\* only on the upload screen (App.tsx:243-274).  CanvasEditor mounts.
HandleImageUpload(img) ==
    /\ imageSrc = 0
    /\ imageSrc' = img
    /\ layers' = InitialLayers
    /\ activeLayerId' = FgId
    /\ kbActiveLayerId' = FgId
    /\ SetHistory(<<>>, [obj |-> 0, data |-> EmptyMap], <<>>,
                  [obj |-> 1, data |-> EmptyMap])
    /\ EditorFresh(TRUE)
    /\ lastOp' = "upload"
    /\ lastPopped' = NoItem
    /\ strokeStart' = NoStroke
    /\ UNCHANGED <<aiPending, now, fillRun, exportVars, toolRun>>

\* The Close button (App.tsx:390): setImageSrc(null) unmounts CanvasEditor.
CloseImage ==
    /\ imageSrc # 0
    /\ imageSrc' = 0
    /\ EditorFresh(FALSE)
    /\ lastOp' = "close"
    /\ lastPopped' = NoItem
    /\ strokeStart' = NoStroke
    /\ UNCHANGED <<layers, activeLayerId, historyPast, historyFuture,
                   currentMasksRef, restoredMasks, aiPending, now,
                   kbActiveLayerId, fillRun, exportVars, toolRun>>

\* Clicking a layer row (App.tsx:460): setActiveLayerId; the keydown effect
\* (deps historyPast, historyFuture, layers) does not run again.
SetActiveLayerId(id) ==
    /\ imageSrc # 0
    /\ id \in LayerIds(layers)
    /\ activeLayerId' = id
    /\ lastOp' = "select"
    /\ lastPopped' = NoItem
    /\ UNCHANGED <<imageSrc, layers, historyPast, historyFuture, currentMasksRef,
                   restoredMasks, aiPending, now, kbActiveLayerId>>
    /\ UNCHANGED <<editorVars, strokeStart, fillRun, exportVars, toolRun>>

\* The fallback of handleUndo/handleRedo (App.tsx:131-134, 152-155), with the
\* activeLayerId the handler's closure holds.
FallbackActive(seenActive, restoredLayers) ==
    IF seenActive \notin LayerIds(restoredLayers)
    THEN IF restoredLayers # <<>> THEN restoredLayers[1].id ELSE FgId
    ELSE activeLayerId

\* handleUndo (App.tsx:116-135).
HandleUndo(seenActive) ==
    /\ lastOp' = IF Len(historyPast) = 0 THEN "undoNoop" ELSE "undo"
    /\ strokeStart' = strokeStart
    /\ UNCHANGED <<imageSrc, aiPending, now, fillRun, exportVars, toolRun>>
    /\ IF Len(historyPast) = 0
       THEN /\ UNCHANGED <<layers, activeLayerId, kbActiveLayerId, editorVars, lastPopped>>
            /\ HistoryUnchanged
       ELSE LET previousState == historyPast[Len(historyPast)]
                newPast == SubSeq(historyPast, 1, Len(historyPast) - 1)
            IN /\ SetHistory(newPast, previousState.masks,
                             <<[layers |-> layers, masks |-> currentMasksRef]>>
                                 \o historyFuture,
                             previousState.masks)
               /\ layers' = previousState.layers
               /\ activeLayerId' = FallbackActive(seenActive, previousState.layers)
               /\ kbActiveLayerId' = activeLayerId'
               /\ EditorAfterRender(previousState.layers, previousState.masks)
               /\ lastPopped' = [layers |-> previousState.layers,
                                 data |-> previousState.masks.data]

\* handleRedo (App.tsx:137-156).
HandleRedo(seenActive) ==
    /\ lastOp' = IF Len(historyFuture) = 0 THEN "redoNoop" ELSE "redo"
    /\ strokeStart' = strokeStart
    /\ UNCHANGED <<imageSrc, aiPending, now, fillRun, exportVars, toolRun>>
    /\ IF Len(historyFuture) = 0
       THEN /\ UNCHANGED <<layers, activeLayerId, kbActiveLayerId, editorVars, lastPopped>>
            /\ HistoryUnchanged
       ELSE LET nextState == historyFuture[1]
                newFuture == Tail(historyFuture)
            IN /\ SetHistory(Append(historyPast,
                                    [layers |-> layers, masks |-> currentMasksRef]),
                             nextState.masks, newFuture, nextState.masks)
               /\ layers' = nextState.layers
               /\ activeLayerId' = FallbackActive(seenActive, nextState.layers)
               /\ kbActiveLayerId' = activeLayerId'
               /\ EditorAfterRender(nextState.layers, nextState.masks)
               /\ lastPopped' = [layers |-> nextState.layers,
                                 data |-> nextState.masks.data]

\* The Undo and Redo buttons (App.tsx:336-351) call the current render's
\* handlers; they are disabled while their stack is empty.
UndoButton == Len(historyPast) # 0 /\ imageSrc # 0 /\ HandleUndo(activeLayerId)
RedoButton == Len(historyFuture) # 0 /\ imageSrc # 0 /\ HandleRedo(activeLayerId)

\* Ctrl+Z / Ctrl+Shift+Z / Ctrl+Y (App.tsx:63-79) call the handlers of the
\* render in which the keydown effect last ran.
UndoKey == HandleUndo(kbActiveLayerId)
RedoKey == HandleRedo(kbActiveLayerId)

\* What every recording App handler leaves alone.
AppHandlerFrame ==
    /\ lastPopped' = NoItem
    /\ UNCHANGED <<imageSrc, now, strokeStart, fillRun, exportVars, toolRun>>

\* addLayer (App.tsx:158-169).
AddLayer ==
    /\ imageSrc # 0
    /\ Len(historyPast) < MaxHist
    /\ Len(layers) < MaxLayers
    /\ LET newId == InstId(now)
           newLayers == Append(layers,
                               [id |-> newId, name |-> "New Instance",
                                color |-> ColorAt(Len(layers)),
                                isVisible |-> TRUE, isLocked |-> FALSE])
       IN /\ SetHistory(PushedPast(layers, currentMasksRef), currentMasksRef,
                        ClearedFuture, restoredMasks)
          /\ layers' = newLayers
          /\ activeLayerId' = newId
          /\ kbActiveLayerId' = newId
          /\ EditorAfterRender(newLayers, restoredMasks)
    /\ lastOp' = "addLayer"
    /\ AppHandlerFrame
    /\ UNCHANGED aiPending

\* { ...l, ...updates } for the two updates the sidebar makes.
ApplyUpdate(l, field, value) ==
    IF field = "name" THEN [l EXCEPT !.name = value] ELSE [l EXCEPT !.color = value]

\* updateLayer (App.tsx:171-176): rename or recolour.
UpdateLayer(id, field, value) ==
    /\ imageSrc # 0
    /\ Len(historyPast) < MaxHist
    /\ id \in LayerIds(layers)
    /\ LET newLayers == [i \in 1 .. Len(layers) |->
                            IF layers[i].id = id
                            THEN ApplyUpdate(layers[i], field, value)
                            ELSE layers[i]]
       IN /\ SetHistory(PushedPast(layers, currentMasksRef), currentMasksRef,
                        ClearedFuture, restoredMasks)
          /\ layers' = newLayers
          /\ EditorAfterRender(newLayers, restoredMasks)
    /\ kbActiveLayerId' = activeLayerId
    /\ lastOp' = "updateLayer"
    /\ AppHandlerFrame
    /\ UNCHANGED <<activeLayerId, aiPending>>

\* The test that rejects a removal (App.tsx:179).
RemoveRejected(ls) == Len(ls) <= 1

\* removeLayer (App.tsx:178-188).
RemoveLayer(id) ==
    /\ imageSrc # 0
    /\ id \in LayerIds(layers)
    /\ lastOp' = IF RemoveRejected(layers) THEN "removeRejected" ELSE "removeLayer"
    /\ AppHandlerFrame
    /\ UNCHANGED aiPending
    /\ IF RemoveRejected(layers)
       THEN /\ UNCHANGED <<layers, activeLayerId, kbActiveLayerId, editorVars>>
            /\ HistoryUnchanged
       ELSE /\ Len(historyPast) < MaxHist
            /\ SetHistory(PushedPast(layers, currentMasksRef), currentMasksRef,
                          ClearedFuture, restoredMasks)
            /\ layers' = FilterOut(layers, id)
            /\ activeLayerId' = IF activeLayerId = id THEN layers[1].id
                                ELSE activeLayerId
            /\ kbActiveLayerId' = activeLayerId'
            /\ EditorAfterRender(FilterOut(layers, id), restoredMasks)

\* toggleVisibility (App.tsx:190-193).
ToggleVisibility(id) ==
    /\ imageSrc # 0
    /\ Len(historyPast) < MaxHist
    /\ id \in LayerIds(layers)
    /\ LET newLayers == [i \in 1 .. Len(layers) |->
                            IF layers[i].id = id
                            THEN [layers[i] EXCEPT !.isVisible = ~@]
                            ELSE layers[i]]
       IN /\ SetHistory(PushedPast(layers, currentMasksRef), currentMasksRef,
                        ClearedFuture, restoredMasks)
          /\ layers' = newLayers
          /\ EditorAfterRender(newLayers, restoredMasks)
    /\ kbActiveLayerId' = activeLayerId
    /\ lastOp' = "toggleVisibility"
    /\ AppHandlerFrame
    /\ UNCHANGED <<activeLayerId, aiPending>>

\* runAIDetection up to its await (App.tsx:210-218): history is pushed when
\* the button is clicked; the closure keeps layers.length.  The button's
\* component (components/Button, isLoading prop, App.tsx:446) is not part of
\* the source at hand; requests still awaited are capped by MaxPendingAI.
RunAIDetection ==
    /\ imageSrc # 0
    /\ Len(historyPast) < MaxHist
    /\ Len(aiPending) < MaxPendingAI
    /\ SetHistory(PushedPast(layers, currentMasksRef), currentMasksRef,
                  ClearedFuture, restoredMasks)
    /\ aiPending' = Append(aiPending,
                           [length |-> Len(layers),
                            pushed |-> [layers |-> layers,
                                        data |-> currentMasksRef.data]])
    /\ kbActiveLayerId' = activeLayerId
    /\ EditorAfterRender(layers, restoredMasks)
    /\ lastOp' = "runAIDetection"
    /\ AppHandlerFrame
    /\ UNCHANGED <<layers, activeLayerId>>

\* The label lists detectObjectsInImage may resolve to (README.md:116-157):
\* none, one label, or the fallback pair.
LabelLists == {<<>>, <<"Object A">>, <<"Object A", "Object B">>}

RemoveAt(seq, k) == SubSeq(seq, 1, k - 1) \o SubSeq(seq, k + 1, Len(seq))

\* The updater of App.tsx:230-233.
LayersAfterLabels(prev, newLayers) ==
    IF Len(prev) = 1 /\ prev[1].id = FgId THEN newLayers ELSE prev \o newLayers

\* runAIDetection after its await (App.tsx:218-239), for request k.
AIDetectionResolved(k, labels) ==
    /\ k \in 1 .. Len(aiPending)
    /\ aiPending' = RemoveAt(aiPending, k)
    /\ lastOp' = IF Len(labels) > 0 THEN "aiLabels" ELSE "aiNoLabels"
    /\ AppHandlerFrame
    /\ HistoryUnchanged
    /\ IF Len(labels) > 0
       THEN LET newLayers == [idx \in 1 .. Len(labels) |->
                                [id |-> AiId(idx - 1, now), name |-> labels[idx],
                                 color |-> ColorAt(aiPending[k].length + idx - 1),
                                 isVisible |-> TRUE, isLocked |-> FALSE]]
                after == LayersAfterLabels(layers, newLayers)
            IN /\ Len(after) <= MaxLayers
               /\ layers' = after
               /\ activeLayerId' = newLayers[1].id
               /\ kbActiveLayerId' = newLayers[1].id
               /\ EditorAfterRender(after, restoredMasks)
       ELSE UNCHANGED <<layers, activeLayerId, kbActiveLayerId, editorVars>>

(***************************************************************************)
(* CanvasEditor handlers (src/components/CanvasEditor.tsx).  The tool,     *)
(* tolerance and zoom props are read when an event fires; App only changes *)
(* them between events, so each event draws them as inputs.  The PAN tool  *)
(* touches no mask and is left out.                                        *)
(***************************************************************************)
Tools == {"BRUSH", "ERASER", "POLYGON", "MAGIC_WAND"}
Tolerances == {0, 30}
Zooms == {1, 5}

\* A position of the pointer far outside every image.
FarPoint == <<12, 0>>

\* getPointerPos (CanvasEditor.tsx:243-258): image-space positions, here the
\* pixels of the image and one position outside it.
PointerPositions ==
    {<<x, y>> : x \in 0 .. (dimensions[1] - 1), y \in 0 .. (dimensions[2] - 1)}
        \cup {FarPoint}

Min(a, b) == IF a < b THEN a ELSE b
Max(a, b) == IF a > b THEN a ELSE b

\* The pixels a round-capped stroke from start to end covers: those of the
\* box spanned by the two positions.
Footprint(canvas, start, end) ==
    {i \in DOMAIN canvas.data :
        /\ (i % canvas.width) >= Min(start[1], end[1])
        /\ (i % canvas.width) <= Max(start[1], end[1])
        /\ (i \div canvas.width) >= Min(start[2], end[2])
        /\ (i \div canvas.width) <= Max(start[2], end[2])}

\* A stroke drawn on every canvas of the map.
DrawOnAll(canvases, active, tool, start, end) ==
    [id \in DOMAIN canvases |->
        [canvases[id] EXCEPT !.data =
            [i \in DOMAIN @ |->
                IF i \in Footprint(canvases[id], start, end)
                THEN IF tool = "ERASER" THEN Transparent ELSE OpaqueWhite
                ELSE @[i]]]]

\* draw (CanvasEditor.tsx:452-476) for active layer id `active`:
\* destination-out for the eraser, source-over white for every other tool.
DrawOn(canvases, active, tool, start, end) ==
    IF active \notin DOMAIN canvases THEN canvases
    ELSE [canvases EXCEPT ![active].data =
            [i \in DOMAIN @ |->
                IF i \in Footprint(canvases[active], start, end)
                THEN IF tool = "ERASER" THEN Transparent ELSE OpaqueWhite
                ELSE @[i]]]

\* draw with the activeLayerId prop of the current render.
Draw(canvases, tool, start, end) == DrawOn(canvases, activeLayerId, tool, start, end)

\* The pixels ctx.fill() covers for a closed path: those of the box spanned
\* by its vertices.
PolygonPixels(canvas, points) ==
    {i \in DOMAIN canvas.data :
        /\ \E k \in 1 .. Len(points) : points[k][1] <= (i % canvas.width)
        /\ \E k \in 1 .. Len(points) : points[k][1] >= (i % canvas.width)
        /\ \E k \in 1 .. Len(points) : points[k][2] <= (i \div canvas.width)
        /\ \E k \in 1 .. Len(points) : points[k][2] >= (i \div canvas.width)}

\* The fill of commitPolygon (CanvasEditor.tsx:350-365) on the canvas of
\* layer id `active`.
FillPolygonOn(canvases, active, points) ==
    [canvases EXCEPT ![active].data =
        [i \in DOMAIN @ |->
            IF i \in PolygonPixels(canvases[active], points)
            THEN OpaqueWhite ELSE @[i]]]

\* captureSnapshot (CanvasEditor.tsx:55-66): the map it hands to onSnapshot.
CaptureSnapshot(canvases, ls, dims) ==
    [id \in (DOMAIN canvases) \cup
            (IF dims[1] > 0 THEN LayerIds(ls) ELSE {}) |->
        IF id \in DOMAIN canvases THEN ToDataURL(canvases[id]) ELSE EmptyUrl]

\* handleSnapshot (App.tsx:111-114) with the map captureSnapshot built.
HandleSnapshot(newData) ==
    /\ SetHistory(PushedPast(layers, currentMasksRef),
                  [obj |-> FreshObj, data |-> newData],
                  ClearedFuture, restoredMasks)
    /\ kbActiveLayerId' = activeLayerId

EditorHandlerFrame ==
    /\ lastPopped' = NoItem
    /\ UNCHANGED <<imageSrc, layers, activeLayerId, aiPending, now, fillRun, exportVars, toolRun>>

NoSnapshot == HistoryUnchanged /\ UNCHANGED kbActiveLayerId

\* img.onload of the image effect (CanvasEditor.tsx:73-100), followed by the
\* ensure-masks and restoration effects that the new dimensions trigger.
\* readable: whether getImageData returned; when it throws (lines 87-91) the
\* source buffer stays null.
ImageOnloadWith(readable) ==
    /\ imageSrc # 0
    /\ imgLoading
    /\ LET img == SourceImages[imageSrc]
           dims == <<img.width, img.height>>
           created == [id \in LayerIds(InitialLayers) |-> NewCanvas(img.width, img.height)]
           ensured == EnsureMasks(layers, dims, created)
       IN /\ dimensions' = dims
          /\ sourceImageData' = IF readable THEN img ELSE NoImageData
          /\ maskCanvases' = RestoreCanvases(restoredMasks, dims, ensured)
          /\ pendingDecodes' = RestoreDecodes(restoredMasks, dims, pendingDecodes)
    /\ polyPoints' = <<>>
    /\ imgLoading' = FALSE
    /\ lastOp' = "imageOnload"
    /\ EditorHandlerFrame
    /\ NoSnapshot
    /\ UNCHANGED <<isDrawing, lastPoint, strokeStart>>

\* The load in which the pixel buffer could be read.
ImageOnload == ImageOnloadWith(TRUE)

\* img.onload of one restoration image (CanvasEditor.tsx:137-143).
RestoreImageOnload(d) ==
    /\ d \in pendingDecodes
    /\ pendingDecodes' = pendingDecodes \ {d}
    /\ maskCanvases' = IF d.id \in DOMAIN maskCanvases
                       THEN [maskCanvases EXCEPT ![d.id] = DrawImage(@, d.url)]
                       ELSE maskCanvases
    /\ UNCHANGED <<imageSrc, layers, activeLayerId, aiPending, now, fillRun, exportVars, toolRun>>
    /\ NoSnapshot
    /\ UNCHANGED <<dimensions, sourceImageData, imgLoading, isDrawing, lastPoint,
                   polyPoints, ghostVars>>

\* The mask update of performFloodFill (CanvasEditor.tsx:271-340) on the
\* canvas of layer id `active`, reading the source buffer src.
FloodFillOn(canvases, active, src, dims, pos, tolerance) ==
    [canvases EXCEPT ![active].data =
        FloodFill(src.data, dims[1], dims[2], @, pos[1], pos[2], tolerance)]

\* performFloodFill (CanvasEditor.tsx:260-343).
PerformFloodFill(pos, tolerance) ==
    /\ UNCHANGED <<dimensions, sourceImageData, imgLoading, isDrawing, lastPoint,
                   polyPoints, pendingDecodes, strokeStart>>
    /\ IF \/ sourceImageData = NoImageData
          \/ ~SeedInBounds(pos[1], pos[2], dimensions[1], dimensions[2])
          \/ activeLayerId \notin DOMAIN maskCanvases
       THEN /\ UNCHANGED maskCanvases
            /\ NoSnapshot
            /\ lastOp' = "fillNoop"
       ELSE LET filled == FloodFillOn(maskCanvases, activeLayerId, sourceImageData,
                                      dimensions, pos, tolerance)
            IN /\ Len(historyPast) < MaxHist
               /\ maskCanvases' = filled
               /\ HandleSnapshot(CaptureSnapshot(filled, layers, dimensions))
               /\ lastOp' = "fill"

\* A test that lets a two-vertex polygon through.
TooFewVerticesLax(points) == Len(points) < 2

\* The test that discards a polygon (CanvasEditor.tsx:346).
TooFewVertices(points) == Len(points) < 3

\* commitPolygon (CanvasEditor.tsx:345-369).
CommitPolygon ==
    /\ UNCHANGED <<dimensions, sourceImageData, imgLoading, isDrawing, lastPoint,
                   pendingDecodes, strokeStart>>
    /\ IF TooFewVertices(polyPoints)
       THEN /\ polyPoints' = <<>>
            /\ UNCHANGED maskCanvases
            /\ NoSnapshot
            /\ lastOp' = "polygonDiscard"
       ELSE IF activeLayerId \notin DOMAIN maskCanvases
       THEN /\ UNCHANGED <<polyPoints, maskCanvases>>
            /\ NoSnapshot
            /\ lastOp' = "polygonNoCanvas"
       ELSE LET filled == FillPolygonOn(maskCanvases, activeLayerId, polyPoints)
            IN /\ Len(historyPast) < MaxHist
               /\ maskCanvases' = filled
               /\ polyPoints' = <<>>
               /\ HandleSnapshot(CaptureSnapshot(filled, layers, dimensions))
               /\ lastOp' = "polygon"

\* dist < 10 / zoom (CanvasEditor.tsx:401-403), squared.
WithinClosingRadius(start, pos, zoom) ==
    ((start[1] - pos[1]) * (start[1] - pos[1])
        + (start[2] - pos[2]) * (start[2] - pos[2])) * zoom * zoom < 100

\* handlePointerDown (CanvasEditor.tsx:381-415).
HandlePointerDown(tool, pos, tolerance, zoom) ==
    /\ imageSrc # 0
    /\ EditorHandlerFrame
    /\ IF tool = "MAGIC_WAND" THEN PerformFloodFill(pos, tolerance)
       ELSE IF tool = "POLYGON"
       THEN IF Len(polyPoints) > 2 /\ WithinClosingRadius(polyPoints[1], pos, zoom)
            THEN CommitPolygon
            ELSE /\ Len(polyPoints) < MaxPoly
                 /\ polyPoints' = Append(polyPoints, pos)
                 /\ lastOp' = "polygonVertex"
                 /\ NoSnapshot
                 /\ UNCHANGED <<dimensions, maskCanvases, sourceImageData, imgLoading,
                                isDrawing, lastPoint, pendingDecodes, strokeStart>>
       ELSE /\ isDrawing' = TRUE
            /\ lastPoint' = pos
            /\ maskCanvases' = Draw(maskCanvases, tool, pos, pos)
            /\ strokeStart' = IF isDrawing THEN strokeStart ELSE maskCanvases
            /\ lastOp' = "pointerDown"
            /\ NoSnapshot
            /\ UNCHANGED <<dimensions, sourceImageData, imgLoading, polyPoints,
                           pendingDecodes>>

\* handlePointerMove (CanvasEditor.tsx:417-437).
HandlePointerMove(tool, pos) ==
    /\ imageSrc # 0
    /\ EditorHandlerFrame
    /\ NoSnapshot
    /\ lastOp' = "pointerMove"
    /\ UNCHANGED <<dimensions, sourceImageData, imgLoading, isDrawing, polyPoints,
                   pendingDecodes, strokeStart>>
    /\ IF tool = "POLYGON" \/ ~isDrawing \/ lastPoint = <<>>
       THEN UNCHANGED <<maskCanvases, lastPoint>>
       ELSE /\ maskCanvases' = Draw(maskCanvases, tool, lastPoint, pos)
            /\ lastPoint' = pos

\* handlePointerUp (CanvasEditor.tsx:439-450), also bound to mouseleave.
HandlePointerUp(tool) ==
    /\ imageSrc # 0
    /\ EditorHandlerFrame
    /\ UNCHANGED <<dimensions, maskCanvases, sourceImageData, imgLoading,
                   polyPoints, pendingDecodes>>
    /\ IF tool = "POLYGON" \/ tool = "MAGIC_WAND"
       THEN /\ UNCHANGED <<isDrawing, lastPoint, strokeStart>>
            /\ NoSnapshot
            /\ lastOp' = "pointerUpIgnored"
       ELSE /\ isDrawing' = FALSE
            /\ lastPoint' = <<>>
            /\ strokeStart' = NoStroke
            /\ IF isDrawing
               THEN /\ Len(historyPast) < MaxHist
                    /\ HandleSnapshot(CaptureSnapshot(maskCanvases, layers, dimensions))
                    /\ lastOp' = "stroke"
               ELSE /\ NoSnapshot
                    /\ lastOp' = "pointerUp"

\* The keydown handler of the editor (CanvasEditor.tsx:371-379) while the
\* polygon tool is selected; with any other tool it returns at once.
HandleKeyEnter ==
    /\ imageSrc # 0
    /\ EditorHandlerFrame
    /\ CommitPolygon

HandleKeyEscape ==
    /\ imageSrc # 0
    /\ EditorHandlerFrame
    /\ polyPoints' = <<>>
    /\ lastOp' = "polygonCancel"
    /\ NoSnapshot
    /\ UNCHANGED <<dimensions, maskCanvases, sourceImageData, imgLoading,
                   isDrawing, lastPoint, pendingDecodes, strokeStart>>

\* An export completion that records the masks like a snapshot.
HandleExportCompleteRecording(url) ==
    /\ isExporting' = FALSE
    /\ downloaded' = url
    /\ HandleSnapshot(CaptureSnapshot(maskCanvases, layers, dimensions))

\* handleExportComplete (App.tsx:200-208): the flag is lowered and the data
\* URL is handed to a download link.
HandleExportComplete(url) ==
    /\ isExporting' = FALSE
    /\ downloaded' = url
    /\ NoSnapshot

\* handleExport (App.tsx:195-198) and what the next render does with it:
\* the export effect (CanvasEditor.tsx:478-482) runs when requestExport
\* turned true, and calls processExport once the image has dimensions;
\* processExport ends in onExportComplete.  Otherwise isExporting stays
\* true.
HandleExport(mode) ==
    /\ imageSrc # 0
    /\ exportMode' = mode
    /\ IF ~isExporting /\ dimensions[1] > 0
       THEN /\ HandleExportComplete(
                   ToDataURL([width |-> dimensions[1], height |-> dimensions[2],
                              data |-> ProcessExport(mode, SourceImages[imageSrc], layers,
                                                     activeLayerId, maskCanvases)]))
            /\ lastOp' = "export"
       ELSE /\ isExporting' = TRUE
            /\ NoSnapshot
            /\ lastOp' = "exportPending"
            /\ UNCHANGED downloaded
    /\ lastPopped' = NoItem
    /\ UNCHANGED <<imageSrc, layers, activeLayerId, aiPending, now, fillRun, exportRun,
                   toolRun>>
    /\ UNCHANGED <<editorVars, strokeStart>>

(***************************************************************************)
(* The program: every handler, in any order.                               *)
(***************************************************************************)
Next ==
    \/ Tick
    \/ \E img \in 1 .. Len(SourceImages) : HandleImageUpload(img)
    \/ CloseImage
    \/ \E readable \in BOOLEAN : ImageOnloadWith(readable)
    \/ \E d \in pendingDecodes : RestoreImageOnload(d)
    \/ \E id \in LayerIds(layers) : SetActiveLayerId(id)
    \/ UndoButton
    \/ RedoButton
    \/ UndoKey
    \/ RedoKey
    \/ AddLayer
    \/ \E id \in LayerIds(layers) : UpdateLayer(id, "name", "Renamed")
    \/ \E id \in LayerIds(layers) : UpdateLayer(id, "color", "#000000")
    \/ \E id \in LayerIds(layers) : RemoveLayer(id)
    \/ \E id \in LayerIds(layers) : ToggleVisibility(id)
    \/ RunAIDetection
    \/ \E k \in 1 .. Len(aiPending), labels \in LabelLists : AIDetectionResolved(k, labels)
    \/ \E t \in Tools, pos \in PointerPositions, tol \in Tolerances, z \in Zooms :
          HandlePointerDown(t, pos, tol, z)
    \/ \E t \in Tools, pos \in PointerPositions : HandlePointerMove(t, pos)
    \/ \E t \in Tools : HandlePointerUp(t)
    \/ HandleKeyEnter
    \/ HandleKeyEscape
    \/ \E mode \in ToolbarExportModes : HandleExport(mode)

Spec == Init /\ [][Next]_vars

(***************************************************************************)
(* Sessions: the same handlers under a narrower user.                      *)
(***************************************************************************)
\* Nothing asynchronous is outstanding in the editor.
Settled == pendingDecodes = {} /\ ~imgLoading

PaintTools == {"BRUSH", "ERASER"}

\* A user who only paints on the one-pixel image and steps through history,
\* at any moment.
NextPaint ==
    \/ HandleImageUpload(2)
    \/ ImageOnload
    \/ \E d \in pendingDecodes : RestoreImageOnload(d)
    \/ \E t \in PaintTools, pos \in PointerPositions : HandlePointerDown(t, pos, 0, 1)
    \/ \E t \in PaintTools, pos \in PointerPositions : HandlePointerMove(t, pos)
    \/ \E t \in PaintTools : HandlePointerUp(t)
    \/ UndoButton
    \/ RedoButton
    \/ UndoKey
    \/ RedoKey

SpecPaint == Init /\ [][NextPaint]_vars

\* The same user, waiting for the editor to settle before every input.
NextSettled ==
    \/ HandleImageUpload(1)
    \/ ImageOnload
    \/ \E d \in pendingDecodes : RestoreImageOnload(d)
    \/ Settled /\ \E t \in PaintTools, pos \in PointerPositions :
                      HandlePointerDown(t, pos, 0, 1)
    \/ Settled /\ \E t \in PaintTools, pos \in PointerPositions : HandlePointerMove(t, pos)
    \/ Settled /\ \E t \in PaintTools : HandlePointerUp(t)
    \/ Settled /\ UndoButton
    \/ Settled /\ RedoButton

SpecSettled == Init /\ [][NextSettled]_vars

\* A user who loads an image, makes one stroke on the untouched history and
\* then steps back and forth, waiting for the editor to settle.
NextOneStroke ==
    \/ \E img \in 1 .. Len(SourceImages) : HandleImageUpload(img)
    \/ CloseImage
    \/ ImageOnload
    \/ \E d \in pendingDecodes : RestoreImageOnload(d)
    \/ /\ Settled /\ ~isDrawing /\ historyPast = <<>> /\ historyFuture = <<>>
       /\ \E t \in PaintTools, pos \in PointerPositions : HandlePointerDown(t, pos, 0, 1)
    \/ Settled /\ isDrawing /\ \E t \in PaintTools, pos \in PointerPositions :
                                  HandlePointerMove(t, pos)
    \/ Settled /\ isDrawing /\ \E t \in PaintTools : HandlePointerUp(t)
    \/ Settled /\ ~isDrawing /\ UndoButton
    \/ Settled /\ ~isDrawing /\ RedoButton

SpecOneStroke == Init /\ [][NextOneStroke]_vars

\* Positions above, left of and midway from the image, for seeds and
\* polygon vertices.
OutsidePositions == {<<-1, 0>>, <<0, 1>>, <<5, 0>>}

\* Where the polygon tool is clicked: on the image, or 5 units right of its
\* corner (inside the closing radius at zoom 1, outside it at zoom 5).
PolygonPositions == (PointerPositions \ {FarPoint}) \cup {<<5, 0>>}

\* A user who collects polygons and flood-fills, closing and reloading the
\* image at will; getImageData may fail at load.
NextShapes ==
    \/ HandleImageUpload(1)
    \/ CloseImage
    \/ \E readable \in BOOLEAN : ImageOnloadWith(readable)
    \/ \E pos \in PointerPositions \cup OutsidePositions, tol \in Tolerances :
          HandlePointerDown("MAGIC_WAND", pos, tol, 1)
    \/ \E pos \in PolygonPositions, z \in Zooms :
          HandlePointerDown("POLYGON", pos, 0, z)
    \/ \E pos \in PointerPositions : HandlePointerMove("POLYGON", pos)
    \/ HandleKeyEnter
    \/ HandleKeyEscape

SpecShapes == Init /\ [][NextShapes]_vars

\* A user who only manages layers, asks for AI labels and steps through
\* history.
NextLayers ==
    \/ Tick
    \/ HandleImageUpload(1)
    \/ \E id \in LayerIds(layers) : SetActiveLayerId(id)
    \/ UndoButton
    \/ RedoButton
    \/ UndoKey
    \/ RedoKey
    \/ AddLayer
    \/ \E id \in LayerIds(layers) : RemoveLayer(id)
    \/ RunAIDetection
    \/ \E k \in 1 .. Len(aiPending), labels \in LabelLists : AIDetectionResolved(k, labels)

SpecLayers == Init /\ [][NextLayers]_vars

\* No export was requested yet.
BeforeExports == ~isExporting /\ downloaded = EmptyUrl

\* A user who paints on the one-pixel image, adds, removes and hides layers
\* and steps through history, waiting for the editor to settle, and then
\* exports; the editor receives each value of its exportMode prop.
NextExports ==
    \/ HandleImageUpload(2)
    \/ ImageOnload
    \/ \E d \in pendingDecodes : RestoreImageOnload(d)
    \/ /\ BeforeExports /\ Settled /\ ~isDrawing
       /\ \E pos \in PointerPositions : HandlePointerDown("BRUSH", pos, 0, 1)
    \/ BeforeExports /\ Settled /\ isDrawing /\ HandlePointerUp("BRUSH")
    \/ BeforeExports /\ Settled /\ ~isDrawing /\ UndoButton
    \/ BeforeExports /\ Settled /\ ~isDrawing /\ RedoButton
    \/ BeforeExports /\ Settled /\ ~isDrawing /\ AddLayer
    \/ /\ BeforeExports /\ Settled /\ ~isDrawing
       /\ \E id \in LayerIds(layers) : RemoveLayer(id)
    \/ /\ BeforeExports /\ Settled /\ ~isDrawing
       /\ \E id \in LayerIds(layers) : ToggleVisibility(id)
    \/ ~isDrawing /\ \E mode \in ExportModes : HandleExport(mode)

SpecExports == Init /\ [][NextExports]_vars

\* A user who manages layers, asks for AI labels and steps through history
\* without painting, closing and loading images of different sizes; the AI
\* request is made on an untouched history and the image is closed when no
\* request is pending.  Nothing was painted, so no snapshot holds a bitmap
\* to decode.
NextRegistry ==
    \/ \E img \in 1 .. Len(SourceImages) : HandleImageUpload(img)
    \/ aiPending = <<>> /\ CloseImage
    \/ ImageOnload
    \/ AddLayer
    \/ \E id \in LayerIds(layers) : RemoveLayer(id)
    \/ UndoButton
    \/ RedoButton
    \/ historyPast = <<>> /\ historyFuture = <<>> /\ RunAIDetection
    \/ \E k \in 1 .. Len(aiPending), labels \in LabelLists : AIDetectionResolved(k, labels)

SpecRegistry == Init /\ [][NextRegistry]_vars

\* A user who paints on the one-pixel image, edits layers and steps through
\* history, waiting for the editor to settle.
NextHistory ==
    \/ HandleImageUpload(2)
    \/ ImageOnload
    \/ \E d \in pendingDecodes : RestoreImageOnload(d)
    \/ /\ Settled /\ ~isDrawing
       /\ \E t \in PaintTools, pos \in PointerPositions : HandlePointerDown(t, pos, 0, 1)
    \/ Settled /\ isDrawing /\ \E t \in PaintTools : HandlePointerUp(t)
    \/ Settled /\ ~isDrawing /\ UndoButton
    \/ Settled /\ ~isDrawing /\ RedoButton
    \/ Settled /\ ~isDrawing /\ AddLayer
    \/ Settled /\ ~isDrawing /\ \E id \in LayerIds(layers) : RemoveLayer(id)
    \/ Settled /\ ~isDrawing /\ \E id \in LayerIds(layers) : ToggleVisibility(id)
    \/ Settled /\ ~isDrawing /\ \E id \in LayerIds(layers) : UpdateLayer(id, "name", "Renamed")

SpecHistory == Init /\ [][NextHistory]_vars

\* A user who paints one stroke on a fresh image and then steps through
\* history at any moment, also while restored bitmaps are still decoding.
NextRestores ==
    \/ \E img \in 1 .. Len(SourceImages) : HandleImageUpload(img)
    \/ CloseImage
    \/ ImageOnload
    \/ \E d \in pendingDecodes : RestoreImageOnload(d)
    \/ /\ Settled /\ ~isDrawing /\ historyPast = <<>> /\ historyFuture = <<>>
       /\ \E t \in PaintTools, pos \in PointerPositions : HandlePointerDown(t, pos, 0, 1)
    \/ Settled /\ isDrawing /\ \E t \in PaintTools : HandlePointerUp(t)
    \/ ~isDrawing /\ UndoButton
    \/ ~isDrawing /\ RedoButton

SpecRestores == Init /\ [][NextRestores]_vars

\* A user who paints a stroke, adds a layer and steps through history, then
\* closes the image and loads another one.
NextReloads ==
    \/ \E img \in 1 .. Len(SourceImages) : HandleImageUpload(img)
    \/ Settled /\ ~isDrawing /\ CloseImage
    \/ ImageOnload
    \/ \E d \in pendingDecodes : RestoreImageOnload(d)
    \/ /\ Settled /\ ~isDrawing /\ historyPast = <<>> /\ historyFuture = <<>>
       /\ \E pos \in PointerPositions : HandlePointerDown("BRUSH", pos, 0, 1)
    \/ Settled /\ isDrawing /\ HandlePointerUp("BRUSH")
    \/ Settled /\ ~isDrawing /\ AddLayer
    \/ Settled /\ ~isDrawing /\ UndoButton
    \/ Settled /\ ~isDrawing /\ RedoButton
    \/ Settled /\ ~isDrawing /\ downloaded = EmptyUrl /\ HandleExport("visual_mask")

SpecReloads == Init /\ [][NextReloads]_vars

\* A user who uses every mask tool on the one-pixel image, one tool at a
\* time, also before the image has loaded.
NextEdits ==
    \/ HandleImageUpload(2)
    \/ ImageOnload
    \/ /\ polyPoints = <<>>
       /\ \E t \in PaintTools, pos \in PointerPositions : HandlePointerDown(t, pos, 0, 1)
    \/ \E t \in PaintTools, pos \in PointerPositions : HandlePointerMove(t, pos)
    \/ \E t \in PaintTools : HandlePointerUp(t)
    \/ /\ ~isDrawing /\ polyPoints = <<>>
       /\ \E pos \in PointerPositions \cup OutsidePositions, tol \in Tolerances :
             HandlePointerDown("MAGIC_WAND", pos, tol, 1)
    \/ ~isDrawing /\ \E pos \in PolygonPositions : HandlePointerDown("POLYGON", pos, 0, 1)
    \/ ~isDrawing /\ HandleKeyEnter

SpecEdits == Init /\ [][NextEdits]_vars

\* A user who may ask for an export as soon as the image is selected, also
\* before it has loaded, paints one stroke, and closes and reloads the image.
\* The image always finishes loading, and the user keeps asking for exports.
NextExportRequests ==
    \/ HandleImageUpload(2)
    \/ CloseImage
    \/ ImageOnload
    \/ /\ Settled /\ ~isDrawing /\ historyPast = <<>>
       /\ \E pos \in PointerPositions : HandlePointerDown("BRUSH", pos, 0, 1)
    \/ Settled /\ isDrawing /\ HandlePointerUp("BRUSH")
    \/ ~isDrawing /\ \E mode \in ToolbarExportModes : HandleExport(mode)

SpecExportRequests ==
    /\ Init
    /\ [][NextExportRequests]_vars
    /\ WF_vars(ImageOnload)
    /\ WF_vars(~isDrawing /\ \E mode \in ToolbarExportModes : HandleExport(mode))

(***************************************************************************)
(* Undo / redo claims.                                                     *)
(***************************************************************************)
AllTransparent(canvas) == \A i \in DOMAIN canvas.data : canvas.data[i][4] = 0

HasOpaque(canvas) == \E i \in DOMAIN canvas.data : canvas.data[i][4] # 0

\* The live bitmaps of the layers ls show exactly what the mask map data holds.
LiveMatches(canvases, ls, data) ==
    \A id \in LayerIds(ls) :
        IF id \in DOMAIN data /\ data[id] # EmptyUrl
        THEN id \in DOMAIN canvases /\ ToDataURL(canvases[id]) = data[id]
        ELSE id \in DOMAIN canvases => AllTransparent(canvases[id])

\* C1: when every input waited for the editor to settle, then once an undo
\* or a redo has settled, the live registry and the live mask bitmaps are
\* the layers and masks of the entry it took off its stack.
C1_UndoRedoRestoresLive ==
    (Settled /\ lastOp \in {"undo", "redo"}) =>
        /\ layers = lastPopped.layers
        /\ LiveMatches(maskCanvases, layers, lastPopped.data)

\* C2: on a freshly loaded image, after exactly one stroke, a settled undo
\* leaves every mask all-transparent, and a settled redo after it leaves
\* every mask with the content the stroke's snapshot recorded; that snapshot
\* is the live content at the end of the stroke.
C2_OneStrokeUndoRedo ==
    Settled =>
        /\ lastOp = "undo" =>
              \A id \in DOMAIN maskCanvases : AllTransparent(maskCanvases[id])
        /\ lastOp \in {"stroke", "redo"} =>
              /\ LayerIds(layers) \subseteq DOMAIN maskCanvases
              /\ \A id \in LayerIds(layers) :
                    /\ id \in DOMAIN currentMasksRef.data
                    /\ ToDataURL(maskCanvases[id]) = currentMasksRef.data[id]
              /\ lastOp = "redo" => historyPast[Len(historyPast)].masks.data = EmptyMap

\* The stroke painted something, was undone and redone.
C2_Witness ==
    /\ Settled
    /\ lastOp = "redo"
    /\ \E id \in DOMAIN maskCanvases : HasOpaque(maskCanvases[id])

\* The operations the history records.
MutatingOps ==
    {"stroke", "polygon", "fill", "addLayer", "removeLayer", "updateLayer",
     "toggleVisibility", "aiLabels"}

\* C3: right after any mutating action, AI label generation included, the
\* future stack is empty.
C3_MutationClearsFuture == lastOp \in MutatingOps => historyFuture = <<>>

\* The masks that were live before the handler of this step wrote: those at
\* pointer-down for a stroke, the current ones otherwise.
LiveBefore == IF lastOp' = "stroke" THEN strokeStart ELSE maskCanvases

\* C4: the entry a mutating action appends to past holds the registry and the
\* mask contents that were live immediately before the action's effect; for
\* AI label generation the entry is the one its click appended and the effect
\* is the arrival of the labels.
C4_PastEntryIsPreAction ==
    [][/\ (Len(historyPast') = Len(historyPast) + 1 /\ lastOp' \in MutatingOps) =>
            /\ historyPast'[Len(historyPast')].layers = layers
            /\ LiveMatches(LiveBefore, layers,
                           historyPast'[Len(historyPast')].masks.data)
       /\ \A k \in 1 .. Len(aiPending), labels \in LabelLists \ {<<>>} :
            AIDetectionResolved(k, labels) =>
                /\ aiPending[k].pushed.layers = layers
                /\ LiveMatches(maskCanvases, layers, aiPending[k].pushed.data)
      ]_vars

\* C5: an undo with an empty past and a redo with an empty future leave the
\* registry, the active layer, every mask, both stacks, the cached masks and
\* the restore signal unchanged.
C5_EmptyStackNoop ==
    [][/\ (historyPast = <<>> /\ UndoKey) =>
            UNCHANGED <<layers, activeLayerId, maskCanvases, pendingDecodes,
                        historyPast, historyFuture, currentMasksRef, restoredMasks>>
       /\ (historyFuture = <<>> /\ RedoKey) =>
            UNCHANGED <<layers, activeLayerId, maskCanvases, pendingDecodes,
                        historyPast, historyFuture, currentMasksRef, restoredMasks>>
      ]_vars

\* Ctrl+Z was pressed on an empty past while a redo stack existed.
C5_Witness ==
    /\ lastOp = "undoNoop"
    /\ historyPast = <<>>
    /\ historyFuture # <<>>
    /\ imageSrc # 0

\* C6: the layer registry always holds at least one layer, and a remove
\* issued on a single-layer registry changes neither registry nor history.
C6_RegistryNeverEmpty ==
    [][/\ Len(layers') >= 1
       /\ \A id \in LayerIds(layers) :
            (Len(layers) = 1 /\ RemoveLayer(id)) =>
                UNCHANGED <<layers, historyPast, historyFuture>>
      ]_vars

\* C7: an undo or redo leaves the active layer unchanged when it is in the
\* restored registry, and makes it the restored registry's first layer when
\* it is not.
C7_ActiveLayerFallback ==
    [][(lastOp' \in {"undo", "redo"} /\ Len(historyPast') # Len(historyPast)) =>
            activeLayerId' = IF activeLayerId \in LayerIds(layers')
                             THEN activeLayerId
                             ELSE layers'[1].id
      ]_vars

(***************************************************************************)
(* Flood-fill guard and polygon claims.                                    *)
(***************************************************************************)
\* What an edit would touch: every mask, both stacks and the snapshot App
\* last received.
EditState == <<maskCanvases, historyPast, historyFuture, currentMasksRef, restoredMasks>>

\* Math.floor(x) >= 0 /\ < width, and the same for y, on integer positions.
InsideImage(pos) ==
    /\ pos[1] >= 0 /\ pos[1] < dimensions[1]
    /\ pos[2] >= 0 /\ pos[2] < dimensions[2]

\* C11: a flood fill whose seed is outside the image, or that is issued while
\* the source pixel buffer is not available, changes no mask pixel, reports
\* no snapshot and leaves past and future as they are.
C11_FillGuardsNoop ==
    [][\A pos \in PointerPositions \cup OutsidePositions, tol \in Tolerances :
          (/\ HandlePointerDown("MAGIC_WAND", pos, tol, 1)
           /\ (~InsideImage(pos) \/ sourceImageData = NoImageData)) =>
              UNCHANGED <<EditState, layers, activeLayerId, polyPoints>>
      ]_vars

\* A fill was refused on a loaded image whose pixels could not be read,
\* with an edit already in the history.
C11_Witness ==
    /\ lastOp = "fillNoop"
    /\ dimensions[1] > 0
    /\ sourceImageData = NoImageData
    /\ historyPast # <<>>

\* C12: Enter with fewer than three vertices, and Escape with any number,
\* leave every mask, past and future unchanged, report no snapshot and leave
\* the vertex set empty.
C12_DiscardEditsNothing ==
    [][/\ (HandleKeyEnter /\ Len(polyPoints) < 3) =>
            (UNCHANGED <<EditState, layers, activeLayerId>> /\ polyPoints' = <<>>)
       /\ HandleKeyEscape =>
            (UNCHANGED <<EditState, layers, activeLayerId>> /\ polyPoints' = <<>>)
      ]_vars

\* Enter discarded a short polygon on a loaded image that already has an
\* edit.
C12_Witness ==
    /\ lastOp = "polygonDiscard"
    /\ polyPoints = <<>>
    /\ dimensions[1] > 0
    /\ historyPast # <<>>

\* The click closes the polygon: three vertices exist and the click is
\* nearer than 10 / zoom to the first.
ClosesPolygon(pos, zoom) ==
    /\ Len(polyPoints) >= 3
    /\ (polyPoints[1][1] - pos[1]) * (polyPoints[1][1] - pos[1]) * zoom * zoom
         + (polyPoints[1][2] - pos[2]) * (polyPoints[1][2] - pos[2]) * zoom * zoom < 100

\* C13: a polygon-tool click appends exactly one vertex, unless it closes the
\* polygon; then it appends none, the vertex set becomes empty and the
\* polygon is written to the active mask and recorded.  Pointer movement
\* never changes the vertex set.
C13_PolygonClicks ==
    [][/\ \A pos \in PolygonPositions, z \in Zooms :
            HandlePointerDown("POLYGON", pos, 0, z) =>
                IF ClosesPolygon(pos, z)
                THEN /\ polyPoints' = <<>>
                     /\ activeLayerId \in DOMAIN maskCanvases'
                     /\ Len(historyPast') = Len(historyPast) + 1
                ELSE polyPoints' = Append(polyPoints, pos)
       /\ \A t \in Tools, pos \in PointerPositions :
            HandlePointerMove(t, pos) => UNCHANGED polyPoints
      ]_vars

(***************************************************************************)
(* The flood-fill specification: a source image, a prior mask, then the    *)
(* same fill applied once and once more.                                   *)
(***************************************************************************)
FillColours == {<<0, 0, 0, 255>>, <<70, 70, 70, 255>>}
FillTolerances == {0, 30, 100}
GridPixels == PixelIdx(GridW, GridH)
FillImages == [GridPixels -> FillColours]
\* Prior masks: empty, full, or every other pixel opaque.
PriorMasks ==
    {BlankData(GridW, GridH),
     [i \in GridPixels |-> OpaqueWhite],
     [i \in GridPixels |-> IF i % 2 = 0 THEN OpaqueWhite ELSE Transparent]}

\* The program's own variables, which a flood-fill run leaves alone.
ProgramIdle ==
    /\ imageSrc = 0
    /\ layers = InitialLayers
    /\ activeLayerId = FgId
    /\ historyPast = <<>>
    /\ historyFuture = <<>>
    /\ currentMasksRef = [obj |-> 0, data |-> EmptyMap]
    /\ restoredMasks = NullMasks
    /\ aiPending = <<>>
    /\ now = 0
    /\ kbActiveLayerId = FgId
    /\ dimensions = <<0, 0>>
    /\ maskCanvases = NoStroke
    /\ sourceImageData = NoImageData
    /\ imgLoading = FALSE
    /\ isDrawing = FALSE
    /\ lastPoint = <<>>
    /\ polyPoints = <<>>
    /\ pendingDecodes = {}
    /\ lastOp = "init"
    /\ lastPopped = NoItem
    /\ strokeStart = NoStroke
    /\ isExporting = FALSE
    /\ exportMode = "rgba"
    /\ downloaded = EmptyUrl

FillInit ==
    /\ ProgramIdle
    /\ exportRun = NoExport
    /\ toolRun = NoTool
    /\ \E s \in FillImages, m \in PriorMasks :
          fillRun = [src |-> s, prior |-> m, mask |-> m, once |-> m,
                     seed |-> <<0, 0>>, tol |-> 0, count |-> 0]

FillFirst(x, y, t) ==
    /\ fillRun.count = 0
    /\ SeedInBounds(x, y, GridW, GridH)
    /\ LET m == FloodFill(fillRun.src, GridW, GridH, fillRun.mask, x, y, t)
       IN fillRun' = [fillRun EXCEPT !.mask = m, !.once = m, !.seed = <<x, y>>,
                                     !.tol = t, !.count = 1]

FillAgain ==
    /\ fillRun.count = 1
    /\ fillRun' = [fillRun EXCEPT
                     !.mask = FloodFill(fillRun.src, GridW, GridH, fillRun.mask,
                                        fillRun.seed[1], fillRun.seed[2], fillRun.tol),
                     !.count = 2]

FillNext ==
    \/ \E x \in 0 .. (GridW - 1), y \in 0 .. (GridH - 1), t \in FillTolerances :
          FillFirst(x, y, t) /\ UNCHANGED <<appVars, editorVars, ghostVars, exportVars, toolRun>>
    \/ FillAgain /\ UNCHANGED <<appVars, editorVars, ghostVars, exportVars, toolRun>>

FillSpec == FillInit /\ [][FillNext]_vars

(***************************************************************************)
(* Flood-fill claims, checked under FillSpec.                              *)
(***************************************************************************)
PixelOf(x, y, width) == y * width + x
XOf(p, width) == p % width
YOf(p, width) == p \div width

\* The tolerance test as the specification states it: each of R, G, B
\* differs by at most tolerance * 2.55.
WithinTolerance(c, c0, tolerance) ==
    \A k \in 1 .. 3 : 100 * Abs(c[k] - c0[k]) <= 255 * tolerance

Adjacent4(p, q, width) ==
    Abs(XOf(p, width) - XOf(q, width)) + Abs(YOf(p, width) - YOf(q, width)) = 1

AdjacentDiagonal(p, q, width) ==
    /\ Abs(XOf(p, width) - XOf(q, width)) = 1
    /\ Abs(YOf(p, width) - YOf(q, width)) = 1

\* The pixels joined to the seed by horizontal and vertical steps through
\* pixels within tolerance of the seed's colour.
RECURSIVE Grow4(_, _, _, _, _)
Grow4(region, src, width, seed, tolerance) ==
    LET more == {q \in DOMAIN src :
                    /\ q \notin region
                    /\ WithinTolerance(src[q], src[seed], tolerance)
                    /\ \E p \in region : Adjacent4(p, q, width)}
    IN IF more = {} THEN region
       ELSE Grow4(region \cup more, src, width, seed, tolerance)

Region4(src, width, seed, tolerance) == Grow4({seed}, src, width, seed, tolerance)

FillSeed == PixelOf(fillRun.seed[1], fillRun.seed[2], GridW)

IsCheckerboard(src, width) ==
    \E c1, c2 \in FillColours :
        /\ c1 # c2
        /\ \A p \in DOMAIN src :
              src[p] = IF (XOf(p, width) + YOf(p, width)) % 2 = 0 THEN c1 ELSE c2

IsSolid(src) == \A p, q \in DOMAIN src : src[p] = src[q]

\* C8: a flood fill leaves every pixel outside the seed's 4-connected
\* matching region as it was, so a matching pixel that touches the region
\* only diagonally is not written; with tolerance 0 on a two-colour
\* checkerboard exactly the seed pixel is written.
C8_NoDiagonalBridge ==
    fillRun.count >= 1 =>
        /\ \A p \in GridPixels \ Region4(fillRun.src, GridW, FillSeed, fillRun.tol) :
              fillRun.once[p] = fillRun.prior[p]
        /\ (IsCheckerboard(fillRun.src, GridW) /\ fillRun.tol = 0) =>
              /\ fillRun.once[FillSeed] = OpaqueWhite
              /\ \A p \in GridPixels \ {FillSeed} : fillRun.once[p] = fillRun.prior[p]

\* A fill was made next to a pixel of the seed's colour that touches the
\* seed diagonally, is outside the seed's region and is still transparent.
C8_Witness ==
    /\ fillRun.count >= 1
    /\ \E p \in GridPixels :
          /\ AdjacentDiagonal(p, FillSeed, GridW)
          /\ fillRun.src[p] = fillRun.src[FillSeed]
          /\ p \notin Region4(fillRun.src, GridW, FillSeed, fillRun.tol)
          /\ fillRun.prior[p] = Transparent
          /\ fillRun.once[p] = Transparent
          /\ fillRun.once[FillSeed] = OpaqueWhite

\* C9: on a source image of one colour a flood fill at any in-bounds seed,
\* with any tolerance, makes every pixel of the mask opaque.
C9_SolidFillsAll ==
    (fillRun.count >= 1 /\ IsSolid(fillRun.src)) =>
        \A p \in GridPixels : fillRun.once[p] = OpaqueWhite

\* A solid image was filled with tolerance 0 over an empty mask.
C9_Witness ==
    /\ fillRun.count >= 1
    /\ IsSolid(fillRun.src)
    /\ fillRun.tol = 0
    /\ fillRun.prior = BlankData(GridW, GridH)
    /\ \A p \in GridPixels : fillRun.once[p] = OpaqueWhite

\* C10: filling a second time with the same seed and tolerance yields the
\* mask the first fill produced.
C10_FillIdempotent ==
    fillRun.count = 2 => fillRun.mask = fillRun.once

\* The fill ran twice and its first run changed part of the mask only.
C10_Witness ==
    /\ fillRun.count = 2
    /\ fillRun.once # fillRun.prior
    /\ \E p \in GridPixels : fillRun.once[p] = Transparent

(***************************************************************************)
(* processExport as a function of its inputs: exportRun holds one source   *)
(* image, registry, active id and canvas map, and the bitmap of one        *)
(* export over them.                                                       *)
(***************************************************************************)
\* Most layers in a registry the export specification draws.
MaxExportLayers == 2

\* Source images of three pixels: an opaque one, and one with a fully
\* transparent, a half-transparent and an opaque pixel.
ExportSources ==
    {[width |-> 3, height |-> 1,
      data |-> [i \in 0 .. 2 |-> <<40 * i + 10, 20, 30, 255>>]],
     [width |-> 3, height |-> 1,
      data |-> [i \in 0 .. 2 |->
                  CASE i = 0 -> Transparent
                    [] i = 1 -> <<200, 100, 50, 128>>
                    [] OTHER -> <<90, 20, 30, 255>>]]}

ExportPixels == 0 .. 2

\* The masks a canvas of three pixels can hold after strokes and fills.
ExportMasks == [ExportPixels -> {Transparent, OpaqueWhite}]

\* Layers as addLayer and runAIDetection create them after 'fg'.
ExportLayerPool ==
    <<InitialLayers[1],
      [id |-> InstId(1), name |-> "Instance 2", color |-> ColorAt(1),
       isVisible |-> TRUE, isLocked |-> FALSE],
      [id |-> AiId(0, 1), name |-> "label", color |-> ColorAt(2),
       isVisible |-> TRUE, isLocked |-> FALSE]>>

\* The subsequence of the pool at the positions in keep.
RECURSIVE PoolPick(_, _)
PoolPick(pool, keep) ==
    IF pool = <<>> THEN <<>>
    ELSE (IF Len(pool) \in keep THEN PoolPick(SubSeq(pool, 1, Len(pool) - 1), keep)
                                         \o <<pool[Len(pool)]>>
          ELSE PoolPick(SubSeq(pool, 1, Len(pool) - 1), keep))

\* Registries: 'fg' first when present, then added layers in creation
\* order, each visible or hidden.
ExportRegistries ==
    {[i \in 1 .. Len(PoolPick(ExportLayerPool, keep)) |->
         [PoolPick(ExportLayerPool, keep)[i] EXCEPT !.isVisible = (i \in shown)]] :
       keep \in {k \in SUBSET (1 .. Len(ExportLayerPool)) :
                    k # {} /\ Cardinality(k) <= MaxExportLayers},
       shown \in SUBSET (1 .. Len(ExportLayerPool))}

\* Canvas maps: one canvas per registered layer, and the 'fg' canvas that
\* the image load created, which stays in the map when 'fg' leaves the
\* registry.
ExportCanvasMaps(ls) ==
    {[id \in DOMAIN m |-> [width |-> 3, height |-> 1, data |-> m[id]]] :
        m \in [LayerIds(ls) \cup {FgId} -> ExportMasks]}

ExportInit ==
    /\ ProgramIdle
    /\ fillRun = NoFill
    /\ toolRun = NoTool
    /\ \E img \in ExportSources, ls \in ExportRegistries :
         \E active \in LayerIds(ls), canvases \in ExportCanvasMaps(ls) :
            exportRun = [img |-> img, layers |-> ls, active |-> active,
                         canvases |-> canvases, mode |-> "none",
                         out |-> BlankData(0, 0)]

ExportOnce(mode) ==
    /\ exportRun.mode = "none"
    /\ exportRun' = [exportRun EXCEPT
                       !.mode = mode,
                       !.out = ProcessExport(mode, exportRun.img, exportRun.layers,
                                             exportRun.active, exportRun.canvases)]
    /\ UNCHANGED <<appVars, editorVars, ghostVars, fillRun, toolRun,
                   isExporting, exportMode, downloaded>>

ExportNext == \E mode \in ExportModes : ExportOnce(mode)

ExportSpec == ExportInit /\ [][ExportNext]_vars

(***************************************************************************)
(* Export claims, checked under ExportSpec.                                *)
(***************************************************************************)
\* The mask of the layer at registry position i includes pixel p.
MaskCovers(i, p) ==
    exportRun.canvases[exportRun.layers[i].id].data[p] = OpaqueWhite

\* The registry positions of the visible layers whose mask covers p.
VisibleCovering(p) ==
    {i \in 1 .. Len(exportRun.layers) :
        exportRun.layers[i].isVisible /\ MaskCovers(i, p)}

\* The last of them, 0 when there is none.
TopCovering(p) ==
    IF VisibleCovering(p) = {} THEN 0
    ELSE CHOOSE i \in VisibleCovering(p) : \A j \in VisibleCovering(p) : j <= i

SourceOpaque == \A p \in ExportPixels : exportRun.img.data[p][4] = 255

Grey(v) == <<v, v, v, 255>>

\* C14: in the training_mask export over a fully opaque source, every pixel
\* is the grey level equal to the 1-based registry position (hidden layers
\* counted) of the last visible layer covering it, and level 0 when no
\* visible layer covers it.
C14_TrainingLabels ==
    (exportRun.mode = "training_mask" /\ SourceOpaque) =>
        \A p \in ExportPixels : exportRun.out[p] = Grey(TopCovering(p))

\* Two visible layers, the second one's mask a strict subset of the
\* first's: label 2 on the overlap, 1 on the rest of the first, 0 elsewhere.
C14_Witness ==
    /\ exportRun.mode = "training_mask"
    /\ SourceOpaque
    /\ Len(exportRun.layers) = 2
    /\ \A i \in 1 .. 2 : exportRun.layers[i].isVisible
    /\ \A p \in ExportPixels : MaskCovers(2, p) => MaskCovers(1, p)
    /\ \E p, q, r \in ExportPixels :
          /\ MaskCovers(2, p) /\ exportRun.out[p] = Grey(2)
          /\ MaskCovers(1, q) /\ ~MaskCovers(2, q) /\ exportRun.out[q] = Grey(1)
          /\ ~MaskCovers(1, r) /\ exportRun.out[r] = Grey(0)

\* C15: the training_mask export is fully opaque at every pixel, whatever
\* the source image and the masks, and every pixel that is fully transparent
\* in the source has label 0 (black) whichever layers cover it.
C15_TrainingOpaque ==
    exportRun.mode = "training_mask" =>
        \A p \in ExportPixels :
            /\ exportRun.out[p][4] = 255
            /\ exportRun.img.data[p][4] = 0 => exportRun.out[p] = Grey(0)

\* A fully transparent source pixel under a visible layer's mask.
C15_Witness ==
    /\ exportRun.mode = "training_mask"
    /\ \E p \in ExportPixels :
          /\ exportRun.img.data[p][4] = 0
          /\ VisibleCovering(p) # {}
          /\ exportRun.out[p] = Grey(0)

\* The mask stored under layer id includes pixel p.
CanvasCovers(id, p) == exportRun.canvases[id].data[p] = OpaqueWhite

\* C16: in the instance export a source pixel is kept iff the active layer's
\* mask covers it and, when the active layer is not 'fg' and the registry
\* holds a layer with id 'fg', the 'fg' mask covers it too; with no 'fg'
\* layer in the registry the active layer's mask alone decides.
C16_InstanceKeeps ==
    exportRun.mode = "instance" =>
        \A p \in ExportPixels :
            LET kept == /\ CanvasCovers(exportRun.active, p)
                        /\ (exportRun.active # FgId /\ FgId \in LayerIds(exportRun.layers))
                              => CanvasCovers(FgId, p)
            IN exportRun.out[p] = IF kept THEN exportRun.img.data[p] ELSE Transparent

\* Some visible layer's mask covers p.
Covered(p) == VisibleCovering(p) # {}

\* A source pixel as it shows on an opaque white canvas.
OnWhite(px) == CompositeSourceOver(px, OpaqueWhite)

\* C17: in the rgba and white_bg exports a pixel shows the source pixel
\* iff at least one visible layer's mask covers it, hidden layers never
\* contributing; every other pixel is fully transparent in rgba and opaque
\* white in white_bg.
C17_CutoutByVisibleMasks ==
    /\ exportRun.mode = "rgba" =>
          \A p \in ExportPixels :
              exportRun.out[p] = IF Covered(p) THEN exportRun.img.data[p]
                                 ELSE Transparent
    /\ exportRun.mode = "white_bg" =>
          \A p \in ExportPixels :
              exportRun.out[p] = IF Covered(p) THEN OnWhite(exportRun.img.data[p])
                                 ELSE OpaqueWhite

\* A white_bg export with a pixel only a hidden layer covers, which is
\* white, next to a pixel a visible layer covers, which shows the source.
C17_Witness ==
    /\ exportRun.mode = "white_bg"
    /\ SourceOpaque
    /\ \E p, q \in ExportPixels :
          /\ ~Covered(p)
          /\ \E i \in 1 .. Len(exportRun.layers) :
                ~exportRun.layers[i].isVisible /\ MaskCovers(i, p)
          /\ exportRun.out[p] = OpaqueWhite
          /\ Covered(q)
          /\ exportRun.out[q] = exportRun.img.data[q]
          /\ exportRun.out[q] # OpaqueWhite

\* Exactly one layer is visible, and its mask covers every pixel.
OneVisibleFullMask ==
    /\ Cardinality({i \in 1 .. Len(exportRun.layers) : exportRun.layers[i].isVisible}) = 1
    /\ \A p \in ExportPixels : Covered(p)

\* C18: for a fully opaque source image and a single visible layer whose
\* mask covers every pixel, the rgba export equals the source image pixel
\* for pixel, and so does the white_bg export.
C18_FullMaskRoundTrip ==
    (/\ exportRun.mode \in {"rgba", "white_bg"}
     /\ SourceOpaque
     /\ OneVisibleFullMask) => exportRun.out = exportRun.img.data

\* An rgba export of a registry with one layer, its mask full.
C18_Witness ==
    /\ exportRun.mode = "rgba"
    /\ SourceOpaque
    /\ OneVisibleFullMask
    /\ Len(exportRun.layers) = 1
    /\ exportRun.out = exportRun.img.data
    /\ \E p \in ExportPixels : exportRun.out[p] # OpaqueWhite

\* C19: in the visual_mask export, at every pixel where the source is
\* opaque, a pixel covered by some visible layer's mask has exactly the
\* colour of the last such layer in registry order at full opacity, with no
\* blending with lower layers, and a pixel no visible layer covers is fully
\* transparent; so is every pixel that is transparent in the source.
C19_VisualMaskColours ==
    exportRun.mode = "visual_mask" =>
        \A p \in ExportPixels :
            /\ exportRun.img.data[p][4] = 255 =>
                  exportRun.out[p] =
                     IF Covered(p)
                     THEN ParseColor(exportRun.layers[TopCovering(p)].color)
                     ELSE Transparent
            /\ exportRun.img.data[p][4] = 0 => exportRun.out[p] = Transparent

\* Two visible layers of different colours overlap on a pixel that shows
\* the second one's colour, and another pixel is covered by neither.
C19_Witness ==
    /\ exportRun.mode = "visual_mask"
    /\ SourceOpaque
    /\ Len(exportRun.layers) = 2
    /\ exportRun.layers[1].color # exportRun.layers[2].color
    /\ \E p, q \in ExportPixels :
          /\ VisibleCovering(p) = {1, 2}
          /\ exportRun.out[p] = ParseColor(exportRun.layers[2].color)
          /\ exportRun.out[p] # ParseColor(exportRun.layers[1].color)
          /\ ~Covered(q)
          /\ exportRun.out[q] = Transparent

(***************************************************************************)
(* Export claims, checked under SpecExports.                               *)
(***************************************************************************)
\* C20: an export in any of the five modes changes no editing state: the
\* layer registry, the active layer id, every mask, past and future are the
\* same after the export as before it was requested.
C20_ExportKeepsEditingState ==
    [][(\E mode \in ExportModes : HandleExport(mode)) =>
          UNCHANGED <<layers, activeLayerId, maskCanvases, historyPast,
                      historyFuture, currentMasksRef, restoredMasks>>]_vars

\* A completed export of a painted mask with both stacks non-empty.
C20_Witness ==
    /\ lastOp = "export"
    /\ downloaded.png
    /\ historyPast # <<>>
    /\ historyFuture # <<>>
    /\ \E id \in DOMAIN maskCanvases : HasOpaque(maskCanvases[id])

(***************************************************************************)
(* Registry and mask-store claims.                                         *)
(***************************************************************************)
\* Layer id has a mask of the loaded image's width and height.
HasMatchingMask(id) ==
    /\ id \in DOMAIN maskCanvases
    /\ maskCanvases[id].width = SourceImages[imageSrc].width
    /\ maskCanvases[id].height = SourceImages[imageSrc].height
    /\ DOMAIN maskCanvases[id].data =
          PixelIdx(SourceImages[imageSrc].width, SourceImages[imageSrc].height)

\* C21: once the image dimensions are known (and the effects of the last
\* render have run), every layer id in the registry has one mask, of the
\* source image's width and height, after any sequence of layer add, layer
\* remove, AI label generation, undo, redo and image load.
C21_EveryLayerHasMask ==
    dimensions[1] > 0 => \A id \in LayerIds(layers) : HasMatchingMask(id)

\* A second image, of another size, is loaded and AI labels have then
\* replaced the registry.
C21_Witness ==
    /\ dimensions = <<2, 2>>
    /\ lastOp = "aiLabels"
    /\ Len(layers) = 2
    /\ FgId \notin LayerIds(layers)
    /\ \A id \in LayerIds(layers) : HasMatchingMask(id)

\* C22: the layer ids of the registry are pairwise distinct in every
\* reachable state, also when layers are created by repeated layer-add
\* actions or AI label generations that read the same clock value, and
\* after undo and redo.
C22_LayerIdsDistinct ==
    \A i, j \in 1 .. Len(layers) : i # j => layers[i].id # layers[j].id

(***************************************************************************)
(* The three mask-writing operations as functions of the canvas map and    *)
(* the active layer id: toolRun holds a map of two layers' masks over the  *)
(* 2 x 2 source image, the active id, and the map before the operation.    *)
(***************************************************************************)
\* The source image the operations work on.
ToolSource == SourceImages[3]

ToolDims == <<ToolSource.width, ToolSource.height>>

\* The pixel positions of the image.
ToolPositions ==
    {<<x, y>> : x \in 0 .. (ToolSource.width - 1), y \in 0 .. (ToolSource.height - 1)}

\* The two layers of a registry after one addLayer.
ToolLayerIds == {FgId, InstId(1)}

\* Canvas maps with any binary mask per layer.
ToolCanvasMaps ==
    {[id \in ToolLayerIds |->
         [width |-> ToolSource.width, height |-> ToolSource.height, data |-> m[id]]] :
        m \in [ToolLayerIds ->
                 [PixelIdx(ToolSource.width, ToolSource.height) ->
                     {Transparent, OpaqueWhite}]]}

\* Vertex lists of MaxPoly vertices.
ToolPolygons == [1 .. MaxPoly -> ToolPositions]

ToolInit ==
    /\ ProgramIdle
    /\ fillRun = NoFill
    /\ exportRun = NoExport
    /\ \E canvases \in ToolCanvasMaps, active \in ToolLayerIds :
          toolRun = [canvases |-> canvases, active |-> active,
                     before |-> canvases, op |-> "none"]

ToolFrame == UNCHANGED <<appVars, editorVars, ghostVars, fillRun, exportVars>>

\* One stroke segment with the brush or the eraser.
ToolStroke(tool, start, end) ==
    /\ toolRun.op = "none"
    /\ toolRun' = [toolRun EXCEPT
                     !.canvases = DrawOn(toolRun.canvases, toolRun.active, tool, start, end),
                     !.op = tool]
    /\ ToolFrame

\* One polygon commit.
ToolPolygon(points) ==
    /\ toolRun.op = "none"
    /\ ~TooFewVertices(points)
    /\ toolRun' = [toolRun EXCEPT
                     !.canvases = FillPolygonOn(toolRun.canvases, toolRun.active, points),
                     !.op = "POLYGON"]
    /\ ToolFrame

\* One flood fill.
ToolFill(pos, tolerance) ==
    /\ toolRun.op = "none"
    /\ SeedInBounds(pos[1], pos[2], ToolDims[1], ToolDims[2])
    /\ toolRun' = [toolRun EXCEPT
                     !.canvases = FloodFillOn(toolRun.canvases, toolRun.active,
                                              ToolSource, ToolDims, pos, tolerance),
                     !.op = "MAGIC_WAND"]
    /\ ToolFrame

ToolNext ==
    \/ \E tool \in PaintTools, start, end \in ToolPositions : ToolStroke(tool, start, end)
    \/ \E points \in ToolPolygons : ToolPolygon(points)
    \/ \E pos \in ToolPositions, tolerance \in Tolerances : ToolFill(pos, tolerance)

ToolSpec == ToolInit /\ [][ToolNext]_vars

\* C23: a stroke segment (paint or erase), a polygon commit and a flood
\* fill change only the mask of the active layer: the mask of every other
\* layer id is the same after the operation as before it.
C23_OnlyActiveMaskChanges ==
    \A id \in DOMAIN toolRun.canvases :
        id # toolRun.active => toolRun.canvases[id] = toolRun.before[id]

\* A flood fill that changed the active mask while the other layer's mask
\* is partly painted.
C23_Witness ==
    /\ toolRun.op = "MAGIC_WAND"
    /\ toolRun.canvases[toolRun.active] # toolRun.before[toolRun.active]
    /\ \E id \in DOMAIN toolRun.canvases :
          /\ id # toolRun.active
          /\ HasOpaque(toolRun.before[id])
          /\ ~AllTransparent(toolRun.before[id])
          /\ \E i \in DOMAIN toolRun.before[id].data : toolRun.before[id].data[i] = Transparent

(***************************************************************************)
(* History claims.                                                         *)
(***************************************************************************)
\* What a history entry records: its layer list and its mask mapping.
EntryContent(item) == [layers |-> item.layers, data |-> item.masks.data]

\* The entries of a stack that grows and shrinks at its end are the same
\* at every position both stacks have.
SameFromBottom(before, after) ==
    \A i \in 1 .. Min(Len(before), Len(after)) :
        EntryContent(after[i]) = EntryContent(before[i])

\* The same for a stack that grows and shrinks at its front.
SameFromTop(before, after) ==
    \A k \in 0 .. (Min(Len(before), Len(after)) - 1) :
        EntryContent(after[Len(after) - k]) = EntryContent(before[Len(before) - k])

\* C24: a snapshot pushed to past or future never changes: as long as an
\* entry stays in its stack, its layer list and its mask mapping are those
\* it was pushed with, whatever strokes, layer edits, undos or redos follow.
\* (Past grows and shrinks at its end, future at its front.)
C24_SnapshotsImmutable ==
    [][/\ SameFromBottom(historyPast, historyPast')
       /\ SameFromTop(historyFuture, historyFuture')]_vars

\* Two entries are in past, the older one pushed by a layer edit, and a
\* stroke that followed it has pushed the newer one.
C24_Witness ==
    /\ Len(historyPast) = 2
    /\ lastOp = "stroke"
    /\ historyPast[1].layers # historyPast[2].layers
    /\ historyPast[2].layers = layers

\* C25: under every interleaving of restore requests and image-decode
\* completions, once an undo or redo was the last input and no decode is
\* pending, each layer's live mask equals that layer's mask in the snapshot
\* requested last (restoredMasks), with no pixel of an earlier restore left.
C25_RestoreReproducesSnapshot ==
    (lastOp \in {"undo", "redo"} /\ Settled /\ dimensions[1] > 0) =>
        LiveMatches(maskCanvases, layers, restoredMasks.data)

\* The bitmap store holds, for every layer of ls and for nothing else, an
\* all-transparent canvas of the size of source image img.
AllBlankAt(canvases, ls, img) ==
    /\ DOMAIN canvases = LayerIds(ls)
    /\ \A id \in DOMAIN canvases :
          canvases[id] = NewCanvas(SourceImages[img].width, SourceImages[img].height)

\* Only the default layer, active, and no history.
RegistryReset ==
    /\ layers' = InitialLayers
    /\ activeLayerId' = FgId
    /\ historyPast' = <<>>
    /\ historyFuture' = <<>>

\* C26: loading a new source image leaves only the default layer "fg",
\* active, with past and future empty and no mask of the previous image
\* (the step that accepts the file), and every mask all-transparent at the
\* new image's dimensions (the step in which the image has loaded),
\* whatever layers, masks and history existed before.
C26_ReloadResets ==
    [][/\ (imageSrc = 0 /\ imageSrc' # 0) =>
              RegistryReset /\ maskCanvases' = NoStroke
       /\ (imageSrc # 0 /\ imgLoading /\ ~imgLoading' /\ imageSrc' # 0) =>
              /\ dimensions' = <<SourceImages[imageSrc].width, SourceImages[imageSrc].height>>
              /\ AllBlankAt(maskCanvases', layers', imageSrc)
              /\ lastOp = "upload" => RegistryReset]_vars

\* Another image has loaded after a painted mask of an image of another
\* width was exported in the layer's colour: the registry, the history and
\* the masks are fresh.
C26_Witness ==
    /\ lastOp = "imageOnload"
    /\ downloaded # EmptyUrl
    /\ downloaded.width # dimensions[1]
    /\ \E i \in 1 .. Len(downloaded.rows) :
          downloaded.rows[i] = ParseColor(InitialLayers[1].color)
    /\ layers = InitialLayers
    /\ historyPast = <<>>
    /\ AllBlankAt(maskCanvases, layers, imageSrc)

(***************************************************************************)
(* The flood fill on images of the two extreme colours.                    *)
(***************************************************************************)
ContrastColours == {<<0, 0, 0, 255>>, <<255, 255, 255, 255>>}
ContrastImages == [GridPixels -> ContrastColours]

FillContrastInit ==
    /\ ProgramIdle
    /\ exportRun = NoExport
    /\ toolRun = NoTool
    /\ \E s \in ContrastImages, m \in PriorMasks :
          fillRun = [src |-> s, prior |-> m, mask |-> m, once |-> m,
                     seed |-> <<0, 0>>, tol |-> 0, count |-> 0]

FillContrastSpec == FillContrastInit /\ [][FillNext]_vars

\* C27: for every source image, in-bounds seed and tolerance, a flood fill
\* writes opaque exactly the pixels joined to the seed by horizontal and
\* vertical steps through pixels whose R, G and B each differ from the seed
\* pixel's by at most tolerance * 2.55, read from the source image; every
\* other pixel of the mask keeps its prior value.
C27_FillWritesExactRegion ==
    fillRun.count >= 1 =>
        \A p \in GridPixels :
            fillRun.once[p] =
                IF p \in Region4(fillRun.src, GridW, FillSeed, fillRun.tol)
                THEN OpaqueWhite
                ELSE fillRun.prior[p]

(***************************************************************************)
(* Snapshot claims, checked under SpecEdits.                               *)
(***************************************************************************)
\* The step reported one snapshot: past has one entry more, the live state
\* App held before, on top of its old entries; future is empty;
\* currentMasksRef holds the bitmaps as they are after the step.
OneEntryPushed ==
    /\ Len(historyPast') = Len(historyPast) + 1
    /\ SameFromBottom(historyPast, historyPast')
    /\ EntryContent(historyPast'[Len(historyPast')]) =
           [layers |-> layers, data |-> currentMasksRef.data]
    /\ historyFuture' = <<>>
    /\ currentMasksRef'.data = CaptureSnapshot(maskCanvases', layers, dimensions)

NothingPushed == UNCHANGED <<historyPast, historyFuture, currentMasksRef>>

\* A brush or eraser drag: nothing at pointer-down and at each segment, one
\* entry at the pointer-up (or pointer-leave) that ends it.
DragPushesOne ==
    \A t \in PaintTools :
        /\ \A pos \in PointerPositions :
              (HandlePointerDown(t, pos, 0, 1) \/ HandlePointerMove(t, pos)) =>
                  NothingPushed
        /\ (isDrawing /\ HandlePointerUp(t)) => OneEntryPushed
        /\ (~isDrawing /\ HandlePointerUp(t)) => NothingPushed

\* A flood fill whose seed is on the image.
FillPushesOne ==
    \A pos \in PointerPositions, tol \in Tolerances :
        (/\ SeedInBounds(pos[1], pos[2], dimensions[1], dimensions[2])
         /\ HandlePointerDown("MAGIC_WAND", pos, tol, 1)) => OneEntryPushed

\* Committing three or more vertices, with Enter or with a click on the
\* first vertex.
PolygonPushesOne ==
    Len(polyPoints) >= 3 =>
        /\ HandleKeyEnter => OneEntryPushed
        /\ \A pos \in PolygonPositions :
              (/\ WithinClosingRadius(polyPoints[1], pos, 1)
               /\ HandlePointerDown("POLYGON", pos, 0, 1)) => OneEntryPushed

\* C28: each completed mask-editing action reports exactly one snapshot and
\* adds exactly one entry to past: a brush or eraser drag from pointer-down
\* to pointer-up adds one however many segments it drew, a polygon commit
\* with at least 3 vertices adds one, and an in-bounds flood fill adds one.
C28_OneSnapshotPerAction ==
    [][DragPushesOne /\ FillPushesOne /\ PolygonPushesOne]_vars

(***************************************************************************)
(* Label-generation claims, checked under SpecLayers.                      *)
(***************************************************************************)
\* Request k resolves with at least one label.
LabelsApplied ==
    \E k \in 1 .. Len(aiPending), labels \in LabelLists \ {<<>>} :
        AIDetectionResolved(k, labels)

\* C29: one undo right after label generation has added its layers restores
\* exactly the registry and the masks that were live immediately before the
\* layers were added, also when other mutating actions ran while the request
\* was pending: the entry on top of past when the layers are added holds
\* that registry and those masks, and the undo that follows restores that
\* entry.
C29_UndoAfterLabels ==
    [][/\ LabelsApplied =>
              /\ historyPast' # <<>>
              /\ EntryContent(historyPast'[Len(historyPast')]) =
                     [layers |-> layers, data |-> currentMasksRef.data]
       /\ (lastOp = "aiLabels" /\ UndoButton) =>
              /\ layers' = historyPast[Len(historyPast)].layers
              /\ currentMasksRef'.data = historyPast[Len(historyPast)].masks.data
              /\ restoredMasks'.data = historyPast[Len(historyPast)].masks.data]_vars

\* Some request resolves, with any label list.
LabelsReturned ==
    \E k \in 1 .. Len(aiPending), labels \in LabelLists : AIDetectionResolved(k, labels)

\* C30: label generation only adds layers: every layer of the registry
\* before the labels are applied is in the registry afterwards with the same
\* id, name, colour and visibility, and no pixel of any mask changes, for
\* every returned label list, the empty one included.
C30_LabelsOnlyAdd ==
    [][LabelsReturned =>
          /\ \A i \in 1 .. Len(layers) : \E j \in 1 .. Len(layers') : layers'[j] = layers[i]
          /\ \A id \in DOMAIN maskCanvases :
                id \in DOMAIN maskCanvases' /\ maskCanvases'[id] = maskCanvases[id]]_vars

(***************************************************************************)
(* Export requests, checked under SpecExportRequests.                      *)
(***************************************************************************)
\* C31: every export request is eventually followed by its export-complete
\* notification, also a request made after the image was selected but
\* before its dimensions are known, and every request made after such a
\* request: whenever a request is waiting (isExporting), the notification
\* that lowers the flag eventually arrives.
C31_EveryRequestCompletes == isExporting ~> ~isExporting

(***************************************************************************)
(* The active layer, checked under SpecLayers.                             *)
(***************************************************************************)
\* C32: in every reachable state the active layer id names a layer of the
\* registry, after any sequence of layer add, layer remove (also of the
\* active layer when it is the first of the registry), label generation,
\* undo and redo.
C32_ActiveLayerInRegistry == activeLayerId \in LayerIds(layers)

(***************************************************************************)
(* Undo and redo as inverses, checked under SpecHistory.                   *)
(***************************************************************************)
\* One entry leaves the end of past and one enters the front of future;
\* the entries that stay are the same.
OneEntryToFuture ==
    /\ Len(historyPast') = Len(historyPast) - 1
    /\ Len(historyFuture') = Len(historyFuture) + 1
    /\ SameFromBottom(historyPast, historyPast')
    /\ SameFromTop(historyFuture, historyFuture')

\* One entry leaves the front of future and one enters the end of past.
OneEntryToPast ==
    /\ Len(historyPast') = Len(historyPast) + 1
    /\ Len(historyFuture') = Len(historyFuture) - 1
    /\ SameFromBottom(historyPast, historyPast')
    /\ SameFromTop(historyFuture, historyFuture')

====
